---- MODULE Spec2Model ----
(***************************************************************************)
(* Quota ledger and send pipeline of the marketing server.                 *)
(*                                                                         *)
(* The ledger is the Mongoose document of src/models/Quota.js.  Its        *)
(* methods are modelled as operators on a document value; the routes that  *)
(* call them are modelled as request handlers that are split at every      *)
(* await that talks to the document store or to a provider.                *)
(*                                                                         *)
(* The specifications share the variables:                                 *)
(*   SpecClassify  getQuotaStatus applied to arbitrary buckets             *)
(*   SpecLedger    the ledger methods called one after another             *)
(*   SpecMark      the mark methods of a message called one after another  *)
(*   Spec          the ledger routes, running concurrently                 *)
(*   SpecSend      the send routes alone                                   *)
(*   SpecPlan      the routes that create a ledger or change a plan        *)
(*   SpecMsg       a send request, and the webhooks, tracking requests and *)
(*                 sweeps that act on its message                          *)
(*   SpecDelivery  a send request and the provider's callbacks             *)
(*   SpecSweep     runs of the scheduled-SMS sweep, one after another      *)
(*   SpecBulk      one bulk send                                           *)
(*   SpecKey       an API key: authentication, regenerate, reset, update   *)
(*   SpecCampaign  a campaign: update, delete, send                        *)
(***************************************************************************)
EXTENDS Integers, Sequences, FiniteSets, TLC

VARIABLES
    quota,      \* the stored ledger document of the user, or NoQuota
    user,       \* the stored user document
    msgs,       \* Email / SMS documents, one slot per send request
    provider,   \* the requests whose message was handed to the provider
    req,        \* the request handlers: position, arguments, loaded document
    now,        \* the clock read by new Date() / Date.now(), in days
    call,       \* SpecLedger: the last method call and its outcome
    cls,        \* SpecClassify: the last classification
    hook,       \* the handlers of webhooks, tracking requests and sweeps
    apiKey,     \* the stored API key document, or NoKey
    campaign    \* the stored campaign document, or NoCampaign

vars == <<quota, user, msgs, provider, req, now, call, cls, hook, apiKey, campaign>>

----------------------------------------------------------------------------
(* Bounds of the model *)

\* concurrent request handlers
NumReqs == 2
\* the clock stops here
MaxTime == 1
\* largest amount handed to hasQuotaAvailable / consumeQuota
MaxAmount == 2
\* SpecLedger: method calls made on the ledger
MaxCalls == 2
\* SpecClassify: largest limit and largest used of a classified bucket
MaxLimit == 20
MaxProbeUsed == 21
\* handlers of webhooks, tracking requests and sweeps
NumHooks == 2
\* recipients of one bulk send
MaxRecipients == 3

(* Program constants *)

\* the rolling window of resetDate, 30 * 24 * 60 * 60 * 1000 ms, in days
ResetWindowDays == 30
\* the batch size of the scheduled-SMS sweep
SweepBatch == 100
\* recipients that POST /api/admin/send-bulk-email serves at a time
BatchSize == 10
\* usage.limit of an API key, the schema's default
KeyLimit == 100000

Types == {"email", "sms", "api"}
Plans == {"free", "starter", "professional"}

\* a plan name no enum and no validator accepts
BadPlan == "enterprise"
PlanArgs == Plans \cup {BadPlan}

\* no ledger stored for the user; no document loaded; no message created
NoQuota == [plan |-> "none"]
NoDoc == [plan |-> "none"]
NoMsg == [status |-> "none"]

\* no API key stored; no campaign stored
NoKey == [name |-> "none"]
NoCampaign == [name |-> "none"]

\* API key secrets: the one the key was created with, the one a regenerate
\* request draws (uuidv4: fresh for each request), and one never given out
FirstSecret == [by |-> "create", n |-> 0]
NewSecret(r) == [by |-> "regenerate", n |-> r]
UnknownSecret == [by |-> "unknown", n |-> 0]

\* a Date path holding null
NoDate == -1

\* no provider-assigned id (null); an id the provider never gave out
NoId == [by |-> "none", n |-> 0, m |-> 0]
UnknownId == [by |-> "unknown", n |-> 0, m |-> 0]

\* the table that createForUser and the three plan routes each spell out
PlanLimits(p) ==
    CASE p = "free"         -> [email |-> 2000,  sms |-> 0,    api |-> 10000]
      [] p = "starter"      -> [email |-> 5000,  sms |-> 1000, api |-> 50000]
      [] p = "professional" -> [email |-> 25000, sms |-> 5000, api |-> 200000]

----------------------------------------------------------------------------
(* The ledger document: src/models/Quota.js *)

Severity(s) ==
    CASE s = "normal"   -> 0
      [] s = "warning"  -> 1
      [] s = "critical" -> 2
      [] s = "exceeded" -> 3

\* quota.limit > 0 ? (quota.used / quota.limit) * 100 : 0
\* The code's value is a fraction; only its integer part is kept, which is what
\* decides every comparison with the integer thresholds 100, 90 and 75.
UsagePercentage(b) ==
    IF b.limit > 0 THEN (b.used * 100) \div b.limit ELSE 0

\* mutant: the thresholds compared with > instead of >=
GetQuotaStatusStrict(q, type) ==
    LET percentage == UsagePercentage(q[type])
        exact == q[type].limit > 0 /\ (q[type].used * 100) % q[type].limit = 0
        above(k) == percentage > k \/ (percentage = k /\ ~exact)
    IN  IF above(100) THEN "exceeded"
        ELSE IF above(90) THEN "critical"
        ELSE IF above(75) THEN "warning"
        ELSE "normal"

\* mutant: the labels of the two middle thresholds swapped
GetQuotaStatusSwapped(q, type) ==
    LET percentage == UsagePercentage(q[type])
    IN  IF percentage >= 100 THEN "exceeded"
        ELSE IF percentage >= 90 THEN "warning"
        ELSE IF percentage >= 75 THEN "critical"
        ELSE "normal"

GetQuotaStatus(q, type) ==
    LET percentage == UsagePercentage(q[type])
    IN  IF percentage >= 100 THEN "exceeded"
        ELSE IF percentage >= 90 THEN "critical"
        ELSE IF percentage >= 75 THEN "warning"
        ELSE "normal"

OverallStatus(q) ==
    LET emailStatus == GetQuotaStatus(q, "email")
        smsStatus   == GetQuotaStatus(q, "sms")
        apiStatus   == GetQuotaStatus(q, "api")
    IN  IF emailStatus = "exceeded" \/ smsStatus = "exceeded" \/ apiStatus = "exceeded"
        THEN "exceeded"
        ELSE IF emailStatus = "critical" \/ smsStatus = "critical" \/ apiStatus = "critical"
        THEN "critical"
        ELSE IF emailStatus = "warning" \/ smsStatus = "warning" \/ apiStatus = "warning"
        THEN "warning"
        ELSE "normal"

\* mutant: the amount asked for is left out of the check
HasQuotaAvailableIgnoresAmount(q, type, amount) ==
    q[type].used <= q[type].limit

HasQuotaAvailable(q, type, amount) ==
    (q[type].used + amount) <= q[type].limit

\* the document as createForUser builds it at time t: used, status and the dates
\* take the schema's defaults
NewLedger(plan, t) ==
    LET bucket(limit) == [used |-> 0, limit |-> limit, resetDate |-> t + ResetWindowDays]
    IN  [plan        |-> plan,
         email       |-> bucket(PlanLimits(plan).email),
         sms         |-> bucket(PlanLimits(plan).sms),
         api         |-> bucket(PlanLimits(plan).api),
         status      |-> "normal",
         lastUpdated |-> t]

\* mutant: the bucket is incremented before the availability check
ConsumeQuotaMutateFirst(q, type, amount, t) ==
    LET q1 == [q EXCEPT ![type].used = @ + amount, !.lastUpdated = t]
        q2 == [q1 EXCEPT !.status = OverallStatus(q1)]
    IN  IF ~HasQuotaAvailable(q, type, amount)
        THEN [ok |-> FALSE, doc |-> q2]
        ELSE [ok |-> TRUE, doc |-> q2]

\* mutant: the check made with < instead of <=
ConsumeQuotaOffByOne(q, type, amount, t) ==
    IF ~((q[type].used + amount) < q[type].limit)
    THEN [ok |-> FALSE, doc |-> q]
    ELSE LET q1 == [q EXCEPT ![type].used = @ + amount, !.lastUpdated = t]
         IN  [ok |-> TRUE, doc |-> [q1 EXCEPT !.status = OverallStatus(q1)]]

\* mutant: the status is not recomputed after the increment
ConsumeQuotaStaleStatus(q, type, amount, t) ==
    IF ~HasQuotaAvailable(q, type, amount)
    THEN [ok |-> FALSE, doc |-> q]
    ELSE [ok |-> TRUE, doc |-> [q EXCEPT ![type].used = @ + amount, !.lastUpdated = t]]

\* consumeQuota up to its save(): ok = FALSE is the thrown 'Insufficient quota'
\* error, doc the document in memory afterwards
ConsumeQuota(q, type, amount, t) ==
    IF ~HasQuotaAvailable(q, type, amount)
    THEN [ok |-> FALSE, doc |-> q]
    ELSE LET q1 == [q EXCEPT ![type].used = @ + amount, !.lastUpdated = t]
         IN  [ok |-> TRUE, doc |-> [q1 EXCEPT !.status = OverallStatus(q1)]]

\* mutant: the reset reaches the other two buckets as well
ResetQuotaEveryBucket(q, type, t) ==
    [q EXCEPT !.email.used = 0, !.email.resetDate = t + ResetWindowDays,
              !.sms.used = 0,   !.sms.resetDate = t + ResetWindowDays,
              !.api.used = 0,   !.api.resetDate = t + ResetWindowDays,
              !.lastUpdated = t,
              !.status = "normal"]

\* resetQuota up to its save()
ResetQuota(q, type, t) ==
    [q EXCEPT ![type].used = 0,
              ![type].resetDate = t + ResetWindowDays,
              !.lastUpdated = t,
              !.status = "normal"]

\* mutant: the api bucket is left out of the reset
ResetAllQuotasSkipApi(q, t) ==
    [q EXCEPT !.email.used = 0, !.email.resetDate = t + ResetWindowDays,
              !.sms.used = 0,   !.sms.resetDate = t + ResetWindowDays,
              !.status = "normal",
              !.lastUpdated = t]

\* resetAllQuotas up to its save()
ResetAllQuotas(q, t) ==
    [q EXCEPT !.email.used = 0, !.email.resetDate = t + ResetWindowDays,
              !.sms.used = 0,   !.sms.resetDate = t + ResetWindowDays,
              !.api.used = 0,   !.api.resetDate = t + ResetWindowDays,
              !.status = "normal",
              !.lastUpdated = t]

\* mutant: the sms limit is left as it was
UpdatePlanDocKeepsSmsLimit(q, newPlan, newLimits, t) ==
    ResetAllQuotas([q EXCEPT !.plan = newPlan,
                             !.email.limit = newLimits.email,
                             !.api.limit = newLimits.api], t)

\* updatePlan: the assignments it makes and those of the resetAllQuotas() it calls
UpdatePlanDoc(q, newPlan, newLimits, t) ==
    ResetAllQuotas([q EXCEPT !.plan = newPlan,
                             !.email.limit = newLimits.email,
                             !.sms.limit = newLimits.sms,
                             !.api.limit = newLimits.api], t)

\* schema validation run by save(): plan is an enum
Validates(q) == q.plan \in Plans

\* save() of a loaded document: Mongoose sends a $set of the paths whose value
\* was changed since the document was loaded (orig), and of nothing else; the
\* store keeps its own value of every other path.  Date paths assigned by the
\* methods always count as changed.
Save(store, orig, doc) ==
    LET path(s, o, d) == IF d # o THEN d ELSE s
        bucket(type) ==
            [used      |-> path(store[type].used, orig[type].used, doc[type].used),
             limit     |-> path(store[type].limit, orig[type].limit, doc[type].limit),
             resetDate |-> path(store[type].resetDate, orig[type].resetDate,
                                doc[type].resetDate)]
    IN  [plan        |-> path(store.plan, orig.plan, doc.plan),
         email       |-> bucket("email"),
         sms         |-> bucket("sms"),
         api         |-> bucket("api"),
         status      |-> path(store.status, orig.status, doc.status),
         lastUpdated |-> doc.lastUpdated]

\* updatePlan as a whole.  It calls resetAllQuotas(), which starts a save() and
\* is not awaited, and then returns a second save() of the same document.  The
\* second save() finds the first still in flight and rejects (Mongoose's
\* ParallelSaveError), so the call fails; the first save() goes on alone: it
\* validates the document and, when valid, writes it.
\*   result  what the caller of updatePlan gets
\*   doc     the document in memory
\*   writes  whether the save() in flight will reach the store
UpdatePlan(q, newPlan, newLimits, t) ==
    LET doc == UpdatePlanDoc(q, newPlan, newLimits, t)
    IN  [result |-> "ParallelSaveError", doc |-> doc, writes |-> Validates(doc)]

----------------------------------------------------------------------------
(* The message documents: the Email model of src/models/ApiKey.js and the   *)
(* SMS model of src/unnamed/part_002.  One record carries the paths of both *)
(* schemas; a document only ever changes the paths of its own schema.       *)

\* Email.create / SMS.create: every path but scheduledAt takes its default.
\* The Email schema has no tracking.messageId and no tracking.sid: in an
\* email these two stay NoId whatever is assigned.
NewMessage(kind, scheduledAt) ==
    [kind         |-> kind,
     status       |-> "pending",
     scheduledAt  |-> scheduledAt,
     sentAt       |-> NoDate,
     deliveredAt  |-> NoDate,
     openedAt     |-> NoDate,
     clickedAt    |-> NoDate,
     bounceReason |-> "none",
     errorMessage |-> "none",
     errorCode    |-> "none",
     openCount    |-> 0,
     clickCount   |-> 0,
     lastOpened   |-> NoDate,
     lastClicked  |-> NoDate,
     messageId    |-> NoId,
     sid          |-> NoId]

\* emailSchema.methods.markAsSent: it takes no argument
EmailMarkAsSent(d, t) ==
    [d EXCEPT !.status = "sent", !.sentAt = t]

\* smsSchema.methods.markAsSent(messageId, sid)
SmsMarkAsSent(d, t, messageId, sid) ==
    [d EXCEPT !.status = "sent", !.sentAt = t, !.messageId = messageId, !.sid = sid]

\* mutant: the counters and sentAt are touched as well
MarkAsDeliveredRestamps(d, t) ==
    [d EXCEPT !.status = "delivered", !.deliveredAt = t, !.sentAt = t]

\* markAsDelivered, the same in both schemas
MarkAsDelivered(d, t) ==
    [d EXCEPT !.status = "delivered", !.deliveredAt = t]

MarkAsOpened(d, t) ==
    [d EXCEPT !.status = "opened", !.openedAt = t,
              !.openCount = @ + 1, !.lastOpened = t]

MarkAsClicked(d, t) ==
    [d EXCEPT !.status = "clicked", !.clickedAt = t,
              !.clickCount = @ + 1, !.lastClicked = t]

MarkAsBounced(d, reason) ==
    [d EXCEPT !.status = "bounced", !.bounceReason = reason]

\* emailSchema.methods.markAsFailed(error)
EmailMarkAsFailed(d, error) ==
    [d EXCEPT !.status = "failed", !.errorMessage = error]

\* smsSchema.methods.markAsFailed(error, errorCode)
SmsMarkAsFailed(d, error, errorCode) ==
    [d EXCEPT !.status = "failed", !.errorMessage = error, !.errorCode = errorCode]

MarkAsUndelivered(d) ==
    [d EXCEPT !.status = "undelivered"]

\* save() of a loaded message: as for the ledger, the paths changed since the
\* document was loaded are written and the store keeps the others
SaveMsg(store, orig, doc) ==
    [f \in DOMAIN doc |-> IF doc[f] # orig[f] THEN doc[f] ELSE store[f]]

\* the error a failed provider call throws: sendEmail / sendSMS wrap it
ProviderError(kind) ==
    IF kind = "email" THEN "Failed to send email" ELSE "Failed to send SMS"

----------------------------------------------------------------------------
(* Ledgers the program can hold *)

\* usage figures next to the thresholds of a bucket: each is reached from a
\* new ledger by that many admitted sends
UsedSamples(limit) ==
    {u \in {0, (3 * limit) \div 4, limit - 1, limit} : u >= 0}

Sample(p, e, s, a) ==
    LET q == [NewLedger(p, 0) EXCEPT !.email.used = e, !.sms.used = s, !.api.used = a]
    IN  [q EXCEPT !.status = OverallStatus(q)]

\* ledgers of the method-level specification: every bucket sampled
MethodLedgers ==
    UNION { { Sample(p, x[1], x[2], x[3]) :
                x \in UsedSamples(PlanLimits(p).email)
                      \X UsedSamples(PlanLimits(p).sms)
                      \X UsedSamples(PlanLimits(p).api) } : p \in Plans }

\* ledgers of the routes: a bucket is empty, one unit short of full, or full;
\* no route consumes the api bucket, which stays at 0
RouteUsed(limit) == {u \in {0, limit - 1, limit} : u >= 0}

RouteLedgers ==
    UNION { { Sample(p, x[1], x[2], 0) :
                x \in RouteUsed(PlanLimits(p).email)
                      \X RouteUsed(PlanLimits(p).sms) } : p \in Plans }

Reqs == 1..NumReqs

\* a request handler before its request arrives
\*   kind, type, plan, sched  the route and its arguments
\*   pc                       the await the handler stands at
\*   orig, doc                the ledger as loaded, and as changed in memory
\*   uplan                    the plan of the user document as loaded
\*   consumed                 whether its consumeQuota call succeeded
\*   res                      the HTTP status answered, 0 before the answer
\*   msg                      the message document the handler created
\*   pid                      the id the provider returned to the handler
\*   slot                     bulk: where the handler stands with each recipient
\*   results                  bulk: the result entries collected so far
\*   secret                   the API key presented, or drawn by regenerate
\*   kdoc                     the API key document as loaded
\*   body, cdoc               campaign update: the request body; the campaign
\*                            as loaded
IdleReq == [kind |-> "idle", pc |-> "idle", type |-> "none", plan |-> "none",
            sched |-> FALSE, orig |-> NoDoc, doc |-> NoDoc, uplan |-> "none",
            consumed |-> FALSE, res |-> 0, msg |-> NoMsg, pid |-> NoId,
            slot |-> <<>>, results |-> <<>>, secret |-> UnknownSecret,
            kdoc |-> NoKey, body |-> NoCampaign, cdoc |-> NoCampaign]

Hooks == 1..NumHooks

\* a handler of a webhook, of a tracking request or of a sweep, before its
\* request arrives
\*   kind, via, event, id  the entry point and its arguments
\*   pc                    the await the handler stands at
\*   mid, orig, doc        the message found: its slot, the document as
\*                         loaded, and as changed in memory
\*   batch                 sweep: the messages found and not yet processed
\*   handed                sweep: the slots it handed to the provider
\*   pid                   sweep: the id the provider returned last
\*   res                   the HTTP status answered, 0 before the answer
IdleHook == [kind |-> "idle", pc |-> "idle", via |-> "none", event |-> "none",
             id |-> NoId, mid |-> 0, orig |-> NoMsg, doc |-> NoMsg,
             batch |-> <<>>, handed |-> {}, pid |-> NoId, res |-> 0]
NoCall == [op |-> "none", n |-> 0]
NoCls == [op |-> "none", limit |-> 0, used1 |-> 0, used2 |-> 0,
          status1 |-> "none", status2 |-> "none"]

----------------------------------------------------------------------------
(* SpecClassify: getQuotaStatus applied to buckets of every small size *)

ProbeLedger(limit, used) ==
    [NewLedger("free", 0) EXCEPT !.email.limit = limit, !.email.used = used]

\* the inputs are drawn here; Classify applies the method to them
InitClassify ==
    /\ quota = NoQuota
    /\ user = [plan |-> "free"]
    /\ msgs = [r \in Reqs |-> NoMsg]
    /\ provider = {}
    /\ req = [r \in Reqs |-> IdleReq]
    /\ now = 0
    /\ call = NoCall
    /\ cls \in [op : {"input"}, limit : 0..MaxLimit,
                 used1 : 0..MaxProbeUsed, used2 : 0..MaxProbeUsed,
                 status1 : {"none"}, status2 : {"none"}]
    /\ hook = [h \in Hooks |-> IdleHook]
    /\ apiKey = NoKey
    /\ campaign = NoCampaign

Classify ==
    /\ cls.op = "input"
    /\ cls' = [cls EXCEPT
                  !.op = "getQuotaStatus",
                  !.status1 = GetQuotaStatus(ProbeLedger(cls.limit, cls.used1), "email"),
                  !.status2 = GetQuotaStatus(ProbeLedger(cls.limit, cls.used2), "email")]
    /\ UNCHANGED <<quota, user, msgs, provider, req, now, call, hook, apiKey, campaign>>

NextClassify == Classify

SpecClassify == InitClassify /\ [][NextClassify]_vars

----------------------------------------------------------------------------
(* SpecLedger: the ledger methods, called one after another.  Each call loads *)
(* the stored document, runs the method and waits for every save() it began.  *)

\* limits handed to updatePlan: the rows of the plan table and one small row
\* whose thresholds single units of usage walk through
SmallLimits == [email |-> 4, sms |-> 10, api |-> 20]
LimitArgs(newPlan) ==
    {SmallLimits, IF newPlan \in Plans THEN PlanLimits(newPlan) ELSE PlanLimits("free")}

InitLedger ==
    /\ quota \in MethodLedgers
    /\ user = [plan |-> quota.plan]
    /\ msgs = [r \in Reqs |-> NoMsg]
    /\ provider = {}
    /\ req = [r \in Reqs |-> IdleReq]
    /\ now = 0
    /\ call = NoCall
    /\ cls = NoCls
    /\ hook = [h \in Hooks |-> IdleHook]
    /\ apiKey = NoKey
    /\ campaign = NoCampaign

\* hasQuotaAvailable(type, amount), then consumeQuota(type, amount)
CallConsumeQuota ==
    \E type \in Types, amount \in 1..MaxAmount :
        call.n < MaxCalls /\
        LET has == HasQuotaAvailable(quota, type, amount)
            r   == ConsumeQuota(quota, type, amount, now)
        IN  /\ quota' = IF r.ok THEN Save(quota, quota, r.doc) ELSE quota
            /\ call' = [op |-> "consumeQuota", n |-> call.n + 1, type |-> type, amount |-> amount,
                        pre |-> quota, has |-> has,
                        result |-> IF r.ok THEN "ok" ELSE "InsufficientQuota",
                        doc |-> r.doc]
            /\ UNCHANGED <<user, msgs, provider, req, now, cls, hook, apiKey, campaign>>

CallResetQuota ==
    \E type \in Types :
        call.n < MaxCalls /\
        LET doc == ResetQuota(quota, type, now)
        IN  /\ quota' = Save(quota, quota, doc)
            /\ call' = [op |-> "resetQuota", n |-> call.n + 1, type |-> type, pre |-> quota,
                        result |-> "ok", doc |-> doc]
            /\ UNCHANGED <<user, msgs, provider, req, now, cls, hook, apiKey, campaign>>

CallResetAllQuotas ==
    call.n < MaxCalls /\
    LET doc == ResetAllQuotas(quota, now)
    IN  /\ quota' = Save(quota, quota, doc)
        /\ call' = [op |-> "resetAllQuotas", n |-> call.n + 1, pre |-> quota,
                    result |-> "ok", doc |-> doc]
        /\ UNCHANGED <<user, msgs, provider, req, now, cls, hook, apiKey, campaign>>

CallUpdatePlan ==
    \E newPlan \in PlanArgs : \E newLimits \in LimitArgs(newPlan) :
        call.n < MaxCalls /\
        LET r == UpdatePlan(quota, newPlan, newLimits, now)
        IN  /\ quota' = IF r.writes THEN Save(quota, quota, r.doc) ELSE quota
            /\ call' = [op |-> "updatePlan", n |-> call.n + 1, plan |-> newPlan, limits |-> newLimits,
                        pre |-> quota, result |-> r.result, doc |-> r.doc]
            /\ UNCHANGED <<user, msgs, provider, req, now, cls, hook, apiKey, campaign>>

Tick ==
    /\ now < MaxTime
    /\ now' = now + 1
    /\ UNCHANGED <<quota, user, msgs, provider, req, call, cls, hook, apiKey, campaign>>

NextLedger ==
    \/ CallConsumeQuota
    \/ CallResetQuota
    \/ CallResetAllQuotas
    \/ CallUpdatePlan
    \/ Tick

SpecLedger == InitLedger /\ [][NextLedger]_vars

----------------------------------------------------------------------------
(* SpecMark: the mark methods of a message, called one after another.  Each *)
(* call loads the stored document, runs the method and waits for its save(). *)

InitMark ==
    /\ quota = NoQuota
    /\ user = [plan |-> "free"]
    /\ \E kind \in {"email", "sms"} :
          msgs = [r \in Reqs |-> IF r = 1 THEN NewMessage(kind, 0) ELSE NoMsg]
    /\ provider = {}
    /\ req = [r \in Reqs |-> IdleReq]
    /\ now = 0
    /\ call = NoCall
    /\ cls = NoCls
    /\ hook = [h \in Hooks |-> IdleHook]
    /\ apiKey = NoKey
    /\ campaign = NoCampaign

\* the method op, which leaves doc in memory, ran on the stored message and
\* its save() is through
MarkCall(op, doc) ==
    /\ msgs' = [msgs EXCEPT ![1] = SaveMsg(msgs[1], msgs[1], doc)]
    /\ call' = [op |-> op, n |-> call.n + 1, pre |-> msgs[1], doc |-> doc]
    /\ UNCHANGED <<quota, user, provider, req, now, cls, hook, apiKey, campaign>>

CallMarkAsSent ==
    /\ call.n < MaxCalls
    /\ LET id == [by |-> "send", n |-> 1, m |-> 1]
       IN  MarkCall("markAsSent",
                    IF msgs[1].kind = "sms" THEN SmsMarkAsSent(msgs[1], now, id, id)
                    ELSE EmailMarkAsSent(msgs[1], now))

CallMarkAsDelivered ==
    /\ call.n < MaxCalls
    /\ MarkCall("markAsDelivered", MarkAsDelivered(msgs[1], now))

CallMarkAsOpened ==
    /\ call.n < MaxCalls
    /\ msgs[1].kind = "email"
    /\ MarkCall("markAsOpened", MarkAsOpened(msgs[1], now))

CallMarkAsClicked ==
    /\ call.n < MaxCalls
    /\ msgs[1].kind = "email"
    /\ MarkCall("markAsClicked", MarkAsClicked(msgs[1], now))

CallMarkAsBounced ==
    /\ call.n < MaxCalls
    /\ msgs[1].kind = "email"
    /\ MarkCall("markAsBounced", MarkAsBounced(msgs[1], "Bounced"))

CallMarkAsFailed ==
    /\ call.n < MaxCalls
    /\ MarkCall("markAsFailed",
                IF msgs[1].kind = "sms"
                THEN SmsMarkAsFailed(msgs[1], "Delivery failed", "failed")
                ELSE EmailMarkAsFailed(msgs[1], ProviderError("email")))

CallMarkAsUndelivered ==
    /\ call.n < MaxCalls
    /\ msgs[1].kind = "sms"
    /\ MarkCall("markAsUndelivered", MarkAsUndelivered(msgs[1]))

NextMark ==
    \/ CallMarkAsSent
    \/ CallMarkAsDelivered
    \/ CallMarkAsOpened
    \/ CallMarkAsClicked
    \/ CallMarkAsBounced
    \/ CallMarkAsFailed
    \/ CallMarkAsUndelivered
    \/ Tick

SpecMark == InitMark /\ [][NextMark]_vars

----------------------------------------------------------------------------
(* Spec: the routes.  A handler takes one step per await; the code between *)
(* two awaits runs without interruption and belongs to the step before it.  *)
(* The ledger may be missing: registration stores the user before it calls  *)
(* createForUser.                                                           *)

Init ==
    /\ quota \in RouteLedgers \cup {NoQuota}
    /\ user \in {[plan |-> p] : p \in (IF quota = NoQuota THEN Plans ELSE {quota.plan})}
    /\ msgs = [r \in Reqs |-> NoMsg]
    /\ provider = {}
    /\ req = [r \in Reqs |-> IdleReq]
    /\ now = 0
    /\ call = NoCall
    /\ cls = NoCls
    /\ hook = [h \in Hooks |-> IdleHook]
    /\ apiKey = NoKey
    /\ campaign = NoCampaign

\* a request arrives at handler r; the handlers are interchangeable, and the
\* requests are numbered in the order they arrive
Arrives(r) ==
    /\ req[r].pc = "idle"
    /\ \A k \in Reqs : k < r => req[k].pc # "idle"

\* the handler has answered; what it loaded is kept for the record
Done(rq, res) == [rq EXCEPT !.pc = "done", !.res = res]

\* mutant: a missing ledger is created on the spot, as GET /api/quotas does
SendFindOneCreatesLedger(r) ==
    \E type \in {"email", "sms"} :
        /\ Arrives(r)
        /\ LET q == IF quota = NoQuota THEN NewLedger(user.plan, now) ELSE quota
               rq == [req[r] EXCEPT !.kind = "send", !.type = type]
           IN  /\ quota' = q
               /\ req' = [req EXCEPT ![r] =
                     IF ~HasQuotaAvailable(q, type, 1) THEN Done(rq, 429)
                     ELSE [rq EXCEPT !.pc = "create", !.orig = q, !.doc = q]]
        /\ UNCHANGED <<user, msgs, provider, now, call, cls, hook, apiKey, campaign>>

\* POST /api/emails/send and POST /api/sms/send: findOne, then the 404 and
\* 429 answers, else on to Email.create / SMS.create
SendFindOne(r) ==
    \E type \in {"email", "sms"} :
        /\ Arrives(r)
        /\ LET rq == [req[r] EXCEPT !.kind = "send", !.type = type]
           IN  req' = [req EXCEPT ![r] =
                 IF quota = NoQuota THEN Done(rq, 404)
                 ELSE IF ~HasQuotaAvailable(quota, type, 1) THEN Done(rq, 429)
                 ELSE [rq EXCEPT !.pc = "create", !.orig = quota, !.doc = quota]]
        /\ UNCHANGED <<quota, user, msgs, provider, now, call, cls, hook, apiKey, campaign>>

\* Email.create / SMS.create: the message is stored in status pending; its
\* scheduledAt is the one of the request (here: a day ahead) or else now
SendCreate(r) ==
    \E sched \in BOOLEAN :
        /\ req[r].pc = "create"
        /\ LET msg == NewMessage(req[r].type, IF sched THEN now + 1 ELSE now)
           IN  /\ msgs' = [msgs EXCEPT ![r] = msg]
               /\ req' = [req EXCEPT ![r].pc = "consume", ![r].sched = sched,
                                     ![r].msg = msg]
        /\ UNCHANGED <<quota, user, provider, now, call, cls, hook, apiKey, campaign>>

\* await quota.consumeQuota(type) on the document loaded by findOne; a throw
\* is answered 500 by the handler's outer catch; a message whose scheduledAt
\* still lies in the future is answered 201 without a provider call
SendConsume(r) ==
    /\ req[r].pc = "consume"
    /\ LET c == ConsumeQuota(req[r].doc, req[r].type, 1, now)
           rq == [req[r] EXCEPT !.doc = c.doc, !.consumed = TRUE]
           later == req[r].sched /\ ~(req[r].msg.scheduledAt <= now)
       IN  /\ quota' = IF c.ok /\ quota # NoQuota
                       THEN Save(quota, req[r].orig, c.doc) ELSE quota
           /\ req' = [req EXCEPT ![r] =
                 IF ~c.ok THEN Done(req[r], 500)
                 ELSE IF later THEN Done(rq, 201)
                 ELSE [rq EXCEPT !.pc = "provider"]]
    /\ UNCHANGED <<user, msgs, provider, now, call, cls, hook, apiKey, campaign>>

\* emailService.sendEmail / smsService.sendSMS: the provider accepts the
\* message and returns its id for it, or fails
SendProvider(r) ==
    \E accepted \in BOOLEAN :
        /\ req[r].pc = "provider"
        /\ provider' = provider \cup {r}
        /\ req' = [req EXCEPT
                      ![r].pc = IF accepted THEN "markAsSent" ELSE "markAsFailed",
                      ![r].pid = IF accepted THEN [by |-> "send", n |-> r, m |-> r]
                                 ELSE NoId]
        /\ UNCHANGED <<quota, user, msgs, now, call, cls, hook, apiKey, campaign>>

\* await email.markAsSent() / await sms.markAsSent(result.messageId,
\* result.sid) on the document the handler created, and the 201 answer
SendMarkAsSent(r) ==
    /\ req[r].pc = "markAsSent"
    /\ LET doc == IF req[r].type = "sms"
                  THEN SmsMarkAsSent(req[r].msg, now, req[r].pid, req[r].pid)
                  ELSE EmailMarkAsSent(req[r].msg, now)
       IN  /\ msgs' = [msgs EXCEPT ![r] = SaveMsg(msgs[r], req[r].msg, doc)]
           /\ req' = [req EXCEPT ![r] = Done([req[r] EXCEPT !.msg = doc], 201)]
    /\ UNCHANGED <<quota, user, provider, now, call, cls, hook, apiKey, campaign>>

\* mutant: the unit consumed for the failed message is given back
SendMarkAsFailedRefunds(r) ==
    /\ req[r].pc = "markAsFailed"
    /\ LET error == ProviderError(req[r].type)
           doc == IF req[r].type = "sms"
                  THEN SmsMarkAsFailed(req[r].msg, error, "none")
                  ELSE EmailMarkAsFailed(req[r].msg, error)
       IN  /\ msgs' = [msgs EXCEPT ![r] = SaveMsg(msgs[r], req[r].msg, doc)]
           /\ req' = [req EXCEPT ![r] = Done([req[r] EXCEPT !.msg = doc], 500)]
           /\ quota' = [quota EXCEPT ![req[r].type].used = @ - 1]
    /\ UNCHANGED <<user, provider, now, call, cls, hook, apiKey, campaign>>

\* await email.markAsFailed(error.message) / await sms.markAsFailed(
\* error.message, error.code) in the catch, and the 500 answer; the error
\* thrown by the services carries no code
SendMarkAsFailed(r) ==
    /\ req[r].pc = "markAsFailed"
    /\ LET error == ProviderError(req[r].type)
           doc == IF req[r].type = "sms"
                  THEN SmsMarkAsFailed(req[r].msg, error, "none")
                  ELSE EmailMarkAsFailed(req[r].msg, error)
       IN  /\ msgs' = [msgs EXCEPT ![r] = SaveMsg(msgs[r], req[r].msg, doc)]
           /\ req' = [req EXCEPT ![r] = Done([req[r] EXCEPT !.msg = doc], 500)]
    /\ UNCHANGED <<quota, user, provider, now, call, cls, hook, apiKey, campaign>>

\* POST /api/quotas/reset and POST /api/admin/quotas/:userId/reset: findOne.
\* The requests carry a well-formed type (and, for the first route, a userId).
ResetFindOne(r) ==
    \E type \in Types \cup {"all"} :
        /\ Arrives(r)
        /\ LET rq == [req[r] EXCEPT !.kind = "reset", !.type = type]
           IN  req' = [req EXCEPT ![r] =
                 IF quota = NoQuota THEN Done(rq, 404)
                 ELSE [rq EXCEPT !.pc = "reset", !.orig = quota, !.doc = quota]]
        /\ UNCHANGED <<quota, user, msgs, provider, now, call, cls, hook, apiKey, campaign>>

\* await quota.resetQuota(type) or await quota.resetAllQuotas()
ResetSave(r) ==
    /\ req[r].pc = "reset"
    /\ LET doc == IF req[r].type = "all"
                  THEN ResetAllQuotas(req[r].doc, now)
                  ELSE ResetQuota(req[r].doc, req[r].type, now)
       IN  /\ quota' = IF quota # NoQuota THEN Save(quota, req[r].orig, doc) ELSE quota
           /\ req' = [req EXCEPT ![r] = Done([req[r] EXCEPT !.doc = doc], 200)]
    /\ UNCHANGED <<user, msgs, provider, now, call, cls, hook, apiKey, campaign>>

\* await quota.updatePlan(plan, planLimits[plan]) in a route.  The call fails,
\* the route's catch answers 500 and skips what follows the await (in the
\* quota plan route, User.findByIdAndUpdate), and the save() begun by
\* resetAllQuotas() stays in flight.  No route continues past the await, so
\* the position "saved" has no step.
UpdatePlanInRoute(rq, t) ==
    LET u == UpdatePlan(quota, rq.plan, PlanLimits(rq.plan), t)
    IN  IF u.result = "ok"
        THEN [rq EXCEPT !.orig = quota, !.doc = u.doc, !.pc = "saved"]
        ELSE [rq EXCEPT !.orig = quota, !.doc = u.doc, !.res = 500,
                        !.pc = IF u.writes THEN "saving" ELSE "done"]

\* PUT /api/quotas/:userId/plan: the plan check, findOne, updatePlan
QuotaPlanFindOne(r) ==
    \E plan \in PlanArgs :
        /\ Arrives(r)
        /\ LET rq == [req[r] EXCEPT !.kind = "quotaPlan", !.plan = plan]
           IN  req' = [req EXCEPT ![r] =
                 IF plan \notin Plans THEN Done(rq, 400)
                 ELSE IF quota = NoQuota THEN Done(rq, 404)
                 ELSE UpdatePlanInRoute(rq, now)]
        /\ UNCHANGED <<quota, user, msgs, provider, now, call, cls, hook, apiKey, campaign>>

\* the save() that updatePlan left in flight reaches the store
SaveInFlight(r) ==
    /\ req[r].pc = "saving"
    /\ quota' = IF quota # NoQuota THEN Save(quota, req[r].orig, req[r].doc) ELSE quota
    /\ req' = [req EXCEPT ![r].pc = "done"]
    /\ UNCHANGED <<user, msgs, provider, now, call, cls, hook, apiKey, campaign>>

\* PUT /api/admin/users/:userId/plan: the validator, User.findById, and the
\* assignment user.plan = plan.  The request names the stored user.
AdminPlanFindUser(r) ==
    \E plan \in PlanArgs :
        /\ Arrives(r)
        /\ LET rq == [req[r] EXCEPT !.kind = "adminPlan", !.plan = plan]
           IN  req' = [req EXCEPT ![r] =
                 IF plan \notin Plans THEN Done(rq, 400)
                 ELSE [rq EXCEPT !.pc = "userSave", !.uplan = user.plan]]
        /\ UNCHANGED <<quota, user, msgs, provider, now, call, cls, hook, apiKey, campaign>>

\* await user.save(): the plan is written when the assignment changed it
AdminPlanUserSave(r) ==
    /\ req[r].pc = "userSave"
    /\ user' = IF req[r].plan # req[r].uplan
               THEN [user EXCEPT !.plan = req[r].plan] ELSE user
    /\ req' = [req EXCEPT ![r].pc = "findOne"]
    /\ UNCHANGED <<quota, msgs, provider, now, call, cls, hook, apiKey, campaign>>

\* PUT /api/users/:id: the validator and User.findByIdAndUpdate; a request
\* without a plan ends here
UserUpdate(r) ==
    \E plan \in PlanArgs \cup {"none"} :
        /\ Arrives(r)
        /\ LET rq == [req[r] EXCEPT !.kind = "userUpdate", !.plan = plan]
           IN  /\ req' = [req EXCEPT ![r] =
                     IF plan = BadPlan THEN Done(rq, 400)
                     ELSE IF plan = "none" THEN Done(rq, 200)
                     ELSE [rq EXCEPT !.pc = "findOne"]]
               /\ user' = IF plan \in Plans THEN [user EXCEPT !.plan = plan] ELSE user
        /\ UNCHANGED <<quota, msgs, provider, now, call, cls, hook, apiKey, campaign>>

\* the admin plan route and the user update route, after the user is
\* written: Quota.findOne and, when there is a ledger, updatePlan
PlanFindOne(r) ==
    /\ req[r].pc = "findOne"
    /\ req' = [req EXCEPT ![r] =
          IF quota = NoQuota THEN Done(req[r], 200)
          ELSE UpdatePlanInRoute(req[r], now)]
    /\ UNCHANGED <<quota, user, msgs, provider, now, call, cls, hook, apiKey, campaign>>

\* GET /api/quotas: findOne, and createForUser when the user has no ledger.
\* The plan handed to createForUser is that of req.user, loaded when the
\* request arrived.
GetQuotaFindOne(r) ==
    /\ Arrives(r)
    /\ LET rq == [req[r] EXCEPT !.kind = "getQuota", !.uplan = user.plan]
       IN  req' = [req EXCEPT ![r] =
             IF quota # NoQuota THEN Done(rq, 200)
             ELSE [rq EXCEPT !.pc = "createForUser"]]
    /\ UNCHANGED <<quota, user, msgs, provider, now, call, cls, hook, apiKey, campaign>>

\* await Quota.createForUser(req.user.id, req.user.plan); userId is unique, so
\* the create of a handler that lost the race fails and is answered 500
GetQuotaCreate(r) ==
    /\ req[r].pc = "createForUser"
    /\ IF quota = NoQuota
       THEN /\ quota' = NewLedger(req[r].uplan, now)
            /\ req' = [req EXCEPT ![r] = Done(req[r], 200)]
       ELSE /\ quota' = quota
            /\ req' = [req EXCEPT ![r] = Done(req[r], 500)]
    /\ UNCHANGED <<user, msgs, provider, now, call, cls, hook, apiKey, campaign>>

Next ==
    \/ \E r \in Reqs : SendFindOne(r)
    \/ \E r \in Reqs : SendCreate(r)
    \/ \E r \in Reqs : SendConsume(r)
    \/ \E r \in Reqs : SendProvider(r)
    \/ \E r \in Reqs : SendMarkAsSent(r)
    \/ \E r \in Reqs : SendMarkAsFailed(r)
    \/ \E r \in Reqs : ResetFindOne(r)
    \/ \E r \in Reqs : ResetSave(r)
    \/ \E r \in Reqs : QuotaPlanFindOne(r)
    \/ \E r \in Reqs : SaveInFlight(r)
    \/ \E r \in Reqs : AdminPlanFindUser(r)
    \/ \E r \in Reqs : AdminPlanUserSave(r)
    \/ \E r \in Reqs : UserUpdate(r)
    \/ \E r \in Reqs : PlanFindOne(r)
    \/ \E r \in Reqs : GetQuotaFindOne(r)
    \/ \E r \in Reqs : GetQuotaCreate(r)
    \/ Tick

Spec == Init /\ [][Next]_vars

\* SpecPlan: the requests that create a ledger or change a plan, all within
\* one day
NextPlan ==
    \/ \E r \in Reqs : QuotaPlanFindOne(r)
    \/ \E r \in Reqs : SaveInFlight(r)
    \/ \E r \in Reqs : AdminPlanFindUser(r)
    \/ \E r \in Reqs : AdminPlanUserSave(r)
    \/ \E r \in Reqs : UserUpdate(r)
    \/ \E r \in Reqs : PlanFindOne(r)
    \/ \E r \in Reqs : GetQuotaFindOne(r)
    \/ \E r \in Reqs : GetQuotaCreate(r)

SpecPlan == Init /\ [][NextPlan]_vars

\* SpecSend: send requests only, with no reset and no plan change among
\* them, all within one day: the ledger's admission does not read the clock
NextSend ==
    \/ \E r \in Reqs : SendFindOne(r)
    \/ \E r \in Reqs : SendCreate(r)
    \/ \E r \in Reqs : SendConsume(r)
    \/ \E r \in Reqs : SendProvider(r)
    \/ \E r \in Reqs : SendMarkAsSent(r)
    \/ \E r \in Reqs : SendMarkAsFailed(r)

SpecSend == Init /\ [][NextSend]_vars

----------------------------------------------------------------------------
(* SpecMsg: the life of a message.  A send request creates it; delivery     *)
(* webhooks, tracking requests and the scheduled-SMS sweep find it in the    *)
(* store and change it.  Each of these handlers loads a document with one    *)
(* await and saves it with another.                                          *)

\* a request arrives at handler h; as for Reqs, in the order of the numbers
ArrivesHook(h) ==
    /\ hook[h].pc = "idle"
    /\ \A k \in Hooks : k < h => hook[k].pc # "idle"

\* the handler has answered; only the answer and what a sweep handed to the
\* provider are kept
DoneHook(hk, res) == [IdleHook EXCEPT !.pc = "done", !.res = res, !.handed = hk.handed]

\* the stored messages of one collection
Stored(kind) == {m \in DOMAIN msgs : msgs[m] # NoMsg /\ msgs[m].kind = kind}

\* the ids a provider callback may carry: those the provider gave out, stored
\* or not yet stored, and one it never gave out
IssuedIds(kind) ==
    ({msgs[m].sid : m \in Stored(kind)}
        \cup {req[r].pid : r \in {k \in Reqs : req[k].type = kind}}
        \cup (IF kind = "sms" THEN {hook[h].pid : h \in Hooks} ELSE {}))
    \ {NoId}

\* POST /api/sms/webhook/delivery (via = "route") and
\* smsService.handleWebhook (via = "service"): a payload without MessageSid is
\* answered 400, resp. throws; then SMS.findOne({ 'tracking.sid': MessageSid
\* }) and the 404 answer; then the switch on MessageStatus, which has no case
\* for other statuses
SmsWebhookFindOne(h) ==
    \E via \in {"route", "service"} :
    \E MessageSid \in IssuedIds("sms") \cup {UnknownId, NoId} :
    \E MessageStatus \in {"delivered", "failed", "undelivered", "queued"} :
        /\ ArrivesHook(h)
        /\ LET hk == [hook[h] EXCEPT !.kind = "smsWebhook", !.via = via,
                                     !.id = MessageSid, !.event = MessageStatus]
               found == {m \in Stored("sms") : msgs[m].sid = MessageSid}
               m == CHOOSE k \in found : \A j \in found : k <= j
           IN  hook' = [hook EXCEPT ![h] =
                 IF MessageSid = NoId THEN DoneHook(hk, 400)
                 ELSE IF found = {} THEN DoneHook(hk, 404)
                 ELSE IF MessageStatus \notin {"delivered", "failed", "undelivered"}
                 THEN DoneHook(hk, 200)
                 ELSE [hk EXCEPT !.pc = "mark", !.mid = m,
                                 !.orig = msgs[m], !.doc = msgs[m]]]
        /\ UNCHANGED <<quota, user, msgs, provider, req, now, call, cls, apiKey, campaign>>

\* mutant: a message that was delivered takes no failure any more
SmsWebhookMarkGuarded(h) ==
    /\ hook[h].kind = "smsWebhook" /\ hook[h].pc = "mark"
    /\ LET hk == hook[h]
           doc == CASE hk.event = "delivered"   -> MarkAsDelivered(hk.doc, now)
                    [] hk.event = "failed"      ->
                         IF hk.doc.status = "delivered" THEN hk.doc
                         ELSE SmsMarkAsFailed(hk.doc, "Delivery failed",
                                              IF hk.via = "route" THEN "failed" ELSE "none")
                    [] hk.event = "undelivered" -> MarkAsUndelivered(hk.doc)
       IN  /\ msgs' = [msgs EXCEPT ![hk.mid] = SaveMsg(msgs[hk.mid], hk.orig, doc)]
           /\ hook' = [hook EXCEPT ![h] = DoneHook(hk, 200)]
    /\ UNCHANGED <<quota, user, provider, req, now, call, cls, apiKey, campaign>>

\* await sms.markAsDelivered() / markAsFailed(...) / markAsUndelivered().
\* The route hands markAsFailed the status as error code; the payloads of the
\* service carry no ErrorMessage and no ErrorCode.
SmsWebhookMark(h) ==
    /\ hook[h].kind = "smsWebhook" /\ hook[h].pc = "mark"
    /\ LET hk == hook[h]
           doc == CASE hk.event = "delivered"   -> MarkAsDelivered(hk.doc, now)
                    [] hk.event = "failed"      ->
                         SmsMarkAsFailed(hk.doc, "Delivery failed",
                                         IF hk.via = "route" THEN "failed" ELSE "none")
                    [] hk.event = "undelivered" -> MarkAsUndelivered(hk.doc)
       IN  /\ msgs' = [msgs EXCEPT ![hk.mid] = SaveMsg(msgs[hk.mid], hk.orig, doc)]
           /\ hook' = [hook EXCEPT ![h] = DoneHook(hk, 200)]
    /\ UNCHANGED <<quota, user, provider, req, now, call, cls, apiKey, campaign>>

\* emailService.handleWebhook: the switch on the payload's type (an unknown
\* type is logged), then Email.findOne({ 'tracking.messageId':
\* data.messageId }).  The Email schema has no such path.  Depending on the
\* strictQuery setting of the Mongoose build, the filter is sent as it is and
\* matches the stored value, which no email has, or the unknown path is
\* stripped from the filter and findOne returns an email of the collection.
EmailWebhookFindOne(h) ==
    \E type \in {"delivered", "bounced", "opened", "clicked", "other"} :
    \E messageId \in IssuedIds("email") \cup {UnknownId} :
    \E strip \in BOOLEAN :
        /\ ArrivesHook(h)
        /\ LET hk == [hook[h] EXCEPT !.kind = "emailWebhook", !.via = "service",
                                     !.id = messageId, !.event = type]
               found == IF strip THEN Stored("email")
                        ELSE {m \in Stored("email") : msgs[m].messageId = messageId}
           IN  IF type = "other" \/ found = {}
               THEN hook' = [hook EXCEPT ![h] = DoneHook(hk, 200)]
               ELSE \E m \in found :
                       hook' = [hook EXCEPT ![h] =
                                   [hk EXCEPT !.pc = "mark", !.mid = m,
                                              !.orig = msgs[m], !.doc = msgs[m]]]
        /\ UNCHANGED <<quota, user, msgs, provider, req, now, call, cls, apiKey, campaign>>

\* handleDelivery / handleBounce / handleOpen / handleClick: the mark call
EmailWebhookMark(h) ==
    /\ hook[h].kind = "emailWebhook" /\ hook[h].pc = "mark"
    /\ LET hk == hook[h]
           doc == CASE hk.event = "delivered" -> MarkAsDelivered(hk.doc, now)
                    [] hk.event = "bounced"   -> MarkAsBounced(hk.doc, "Bounced")
                    [] hk.event = "opened"    -> MarkAsOpened(hk.doc, now)
                    [] hk.event = "clicked"   -> MarkAsClicked(hk.doc, now)
       IN  /\ msgs' = [msgs EXCEPT ![hk.mid] = SaveMsg(msgs[hk.mid], hk.orig, doc)]
           /\ hook' = [hook EXCEPT ![h] = DoneHook(hk, 200)]
    /\ UNCHANGED <<quota, user, provider, req, now, call, cls, apiKey, campaign>>

\* POST /api/emails/:id/track/open and /track/click: a click without url is
\* answered 400; then Email.findById(req.params.id) and the 404 answer
TrackFindById(h) ==
    \E event \in {"opened", "clicked"} : \E id \in Reqs : \E url \in BOOLEAN :
        /\ ArrivesHook(h)
        /\ event = "opened" => url
        /\ LET hk == [hook[h] EXCEPT !.kind = "track", !.via = "route",
                                     !.mid = id, !.event = event]
           IN  hook' = [hook EXCEPT ![h] =
                 IF ~url THEN DoneHook(hk, 400)
                 ELSE IF id \notin Stored("email") THEN DoneHook(hk, 404)
                 ELSE [hk EXCEPT !.pc = "mark", !.orig = msgs[id], !.doc = msgs[id]]]
        /\ UNCHANGED <<quota, user, msgs, provider, req, now, call, cls, apiKey, campaign>>

\* await email.markAsOpened() / await email.markAsClicked(), then the pixel
\* or the redirect
TrackMark(h) ==
    /\ hook[h].kind = "track" /\ hook[h].pc = "mark"
    /\ LET hk == hook[h]
           doc == IF hk.event = "opened" THEN MarkAsOpened(hk.doc, now)
                  ELSE MarkAsClicked(hk.doc, now)
       IN  /\ msgs' = [msgs EXCEPT ![hk.mid] = SaveMsg(msgs[hk.mid], hk.orig, doc)]
           /\ hook' = [hook EXCEPT ![h] = DoneHook(hk, IF hk.event = "opened" THEN 200 ELSE 302)]
    /\ UNCHANGED <<quota, user, provider, req, now, call, cls, apiKey, campaign>>

\* the slots of S in rising order
InOrder(S) ==
    [i \in 1..Cardinality(S) |->
        CHOOSE k \in S : Cardinality({j \in S : j < k}) = i - 1]

\* mutant: the scan takes every due message, whatever its status
SweepFindAnyStatus(h) ==
    /\ ArrivesHook(h)
    /\ LET due == {m \in Stored("sms") :
                      msgs[m].scheduledAt <= now}
           all == InOrder(due)
           scheduledSMS == [i \in 1..(IF Len(all) < SweepBatch THEN Len(all) ELSE SweepBatch)
                               |-> [m |-> all[i], doc |-> msgs[all[i]]]]
       IN  hook' = [hook EXCEPT ![h] =
             IF scheduledSMS = <<>> THEN DoneHook(hook[h], 200)
             ELSE [hook[h] EXCEPT !.kind = "sweep", !.pc = "sendSMS", !.via = "service",
                                  !.batch = scheduledSMS]]
    /\ UNCHANGED <<quota, user, msgs, provider, req, now, call, cls, apiKey, campaign>>

\* smsService.sendScheduledSMS: SMS.find({ status: 'pending', scheduledAt:
\* { $lte: now } }).limit(100)
SweepFind(h) ==
    /\ ArrivesHook(h)
    /\ LET due == {m \in Stored("sms") :
                      msgs[m].status = "pending" /\ msgs[m].scheduledAt <= now}
           all == InOrder(due)
           scheduledSMS == [i \in 1..(IF Len(all) < SweepBatch THEN Len(all) ELSE SweepBatch)
                               |-> [m |-> all[i], doc |-> msgs[all[i]]]]
       IN  hook' = [hook EXCEPT ![h] =
             IF scheduledSMS = <<>> THEN DoneHook(hook[h], 200)
             ELSE [hook[h] EXCEPT !.kind = "sweep", !.pc = "sendSMS", !.via = "service",
                                  !.batch = scheduledSMS]]
    /\ UNCHANGED <<quota, user, msgs, provider, req, now, call, cls, apiKey, campaign>>

\* await this.sendSMS(sms) for the next message of the batch
SweepSendSMS(h) ==
    \E accepted \in BOOLEAN :
        /\ hook[h].kind = "sweep" /\ hook[h].pc = "sendSMS"
        /\ LET m == Head(hook[h].batch).m
           IN  hook' = [hook EXCEPT
                 ![h].handed = @ \cup {m},
                 ![h].pid = IF accepted THEN [by |-> "sweep", n |-> h, m |-> m] ELSE NoId,
                 ![h].pc = IF accepted THEN "markAsSent" ELSE "markAsFailed"]
        /\ UNCHANGED <<quota, user, msgs, provider, req, now, call, cls, apiKey, campaign>>

\* await sms.markAsSent(result.messageId, result.sid), or in the catch
\* await sms.markAsFailed(error.message, error.code); then the next message
SweepMark(h) ==
    /\ hook[h].kind = "sweep" /\ hook[h].pc \in {"markAsSent", "markAsFailed"}
    /\ LET hk == hook[h]
           sms == Head(hk.batch)
           doc == IF hk.pc = "markAsSent"
                  THEN SmsMarkAsSent(sms.doc, now, hk.pid, hk.pid)
                  ELSE SmsMarkAsFailed(sms.doc, ProviderError("sms"), "none")
       IN  /\ msgs' = [msgs EXCEPT ![sms.m] = SaveMsg(msgs[sms.m], sms.doc, doc)]
           /\ hook' = [hook EXCEPT ![h] =
                 IF Tail(hk.batch) = <<>> THEN DoneHook(hk, 200)
                 ELSE [hk EXCEPT !.batch = Tail(hk.batch), !.pc = "sendSMS", !.pid = NoId]]
    /\ UNCHANGED <<quota, user, provider, req, now, call, cls, apiKey, campaign>>

\* the user's ledger has room for every message sent here
InitMsg ==
    /\ quota = Sample("starter", 0, 0, 0)
    /\ user = [plan |-> "starter"]
    /\ msgs = [r \in Reqs |-> NoMsg]
    /\ provider = {}
    /\ req = [r \in Reqs |-> IdleReq]
    /\ now = 0
    /\ call = NoCall
    /\ cls = NoCls
    /\ hook = [h \in Hooks |-> IdleHook]
    /\ apiKey = NoKey
    /\ campaign = NoCampaign

\* one send request is followed through its message's life
NextMsg ==
    \/ SendFindOne(1)
    \/ \E r \in Reqs : SendCreate(r)
    \/ \E r \in Reqs : SendConsume(r)
    \/ \E r \in Reqs : SendProvider(r)
    \/ \E r \in Reqs : SendMarkAsSent(r)
    \/ \E r \in Reqs : SendMarkAsFailed(r)
    \/ \E h \in Hooks : SmsWebhookFindOne(h)
    \/ \E h \in Hooks : SmsWebhookMark(h)
    \/ \E h \in Hooks : EmailWebhookFindOne(h)
    \/ \E h \in Hooks : EmailWebhookMark(h)
    \/ \E h \in Hooks : TrackFindById(h)
    \/ \E h \in Hooks : TrackMark(h)
    \/ \E h \in Hooks : SweepFind(h)
    \/ \E h \in Hooks : SweepSendSMS(h)
    \/ \E h \in Hooks : SweepMark(h)
    \/ Tick

SpecMsg == InitMsg /\ [][NextMsg]_vars

\* SpecDelivery: a send request and the provider's callbacks for its message
NextDelivery ==
    \/ SendFindOne(1)
    \/ \E r \in Reqs : SendCreate(r)
    \/ \E r \in Reqs : SendConsume(r)
    \/ \E r \in Reqs : SendProvider(r)
    \/ \E r \in Reqs : SendMarkAsSent(r)
    \/ \E r \in Reqs : SendMarkAsFailed(r)
    \/ \E h \in Hooks : SmsWebhookFindOne(h)
    \/ \E h \in Hooks : SmsWebhookMark(h)
    \/ \E h \in Hooks : EmailWebhookFindOne(h)
    \/ \E h \in Hooks : EmailWebhookMark(h)
    \/ Tick

SpecDelivery == InitMsg /\ [][NextDelivery]_vars

----------------------------------------------------------------------------
(* SpecSweep: runs of the scheduled-SMS sweep, one after another, over a    *)
(* store that holds more due messages than one run takes.  The first        *)
(* NumReqs messages are due, scheduled for the next day, or already sent;   *)
(* the provider may fail for these and accepts the others.                  *)

SweepStore == 1..(NumReqs + SweepBatch + 1)

InitSweep ==
    /\ quota = Sample("starter", 0, 0, 0)
    /\ user = [plan |-> "starter"]
    /\ \E first \in [Reqs -> {"due", "later", "sent"}] :
          msgs = [m \in SweepStore |->
                    IF m \in Reqs /\ first[m] = "later" THEN NewMessage("sms", 1)
                    ELSE IF m \in Reqs /\ first[m] = "sent"
                    THEN SmsMarkAsSent(NewMessage("sms", 0), 0,
                                       [by |-> "send", n |-> m, m |-> m],
                                       [by |-> "send", n |-> m, m |-> m])
                    ELSE NewMessage("sms", 0)]
    /\ provider = {}
    /\ req = [r \in Reqs |-> IdleReq]
    /\ now = 0
    /\ call = NoCall
    /\ cls = NoCls
    /\ hook = [h \in Hooks |-> IdleHook]
    /\ apiKey = NoKey
    /\ campaign = NoCampaign

NoSweepRunning == \A h \in Hooks : hook[h].pc \in {"idle", "done"}

\* a run of smsService.sendScheduledSMS starts when no other run is under way
SweepFindAlone(h) ==
    /\ NoSweepRunning
    /\ SweepFind(h)

\* this.sendSMS(sms), with a provider that fails for the first messages only
SweepSendSMSFirstFail(h) ==
    /\ SweepSendSMS(h)
    /\ Head(hook[h].batch).m \notin Reqs => hook'[h].pc = "markAsSent"

\* the clock moves between two runs
TickBetweenRuns ==
    /\ NoSweepRunning
    /\ Tick

NextSweep ==
    \/ \E h \in Hooks : SweepFindAlone(h)
    \/ \E h \in Hooks : SweepSendSMSFirstFail(h)
    \/ \E h \in Hooks : SweepMark(h)
    \/ TickBetweenRuns

SpecSweep == InitSweep /\ [][NextSweep]_vars

----------------------------------------------------------------------------
(* SpecBulk: one bulk send.  POST /api/admin/send-email serves its          *)
(* recipients one after another, POST /api/admin/send-bulk-email in batches *)
(* of BatchSize that run side by side, and emailService.sendBulkEmails and  *)
(* smsService.sendBulkSMS hand a list of messages to the provider.          *)
(* Recipient i is the i-th of the list; the Email stored for it takes       *)
(* slot i.                                                                  *)

BulkKinds == {"adminSendEmail", "adminBulkEmail", "serviceBulk"}

InitBulk ==
    /\ quota \in {Sample("starter", u, 0, 0) : u \in RouteUsed(PlanLimits("starter").email)}
    /\ user = [plan |-> "starter"]
    /\ msgs = [i \in 1..MaxRecipients |-> NoMsg]
    /\ provider = {}
    /\ req = [r \in Reqs |-> IdleReq]
    /\ now = 0
    /\ call = NoCall
    /\ cls = NoCls
    /\ hook = [h \in Hooks |-> IdleHook]
    /\ apiKey = NoKey
    /\ campaign = NoCampaign

\* the request arrives with its list; the routes answer 400 to an empty one
BulkArrive(r) ==
    \E kind \in BulkKinds : \E n \in 0..MaxRecipients :
        /\ Arrives(r)
        /\ LET rq == [req[r] EXCEPT !.kind = kind,
                                    !.slot = [i \in 1..n |-> "send"]]
           IN  req' = [req EXCEPT ![r] =
                 IF n = 0 THEN Done(rq, IF kind = "serviceBulk" THEN 200 ELSE 400)
                 ELSE [rq EXCEPT !.pc = "loop"]]
        /\ UNCHANGED <<quota, user, msgs, provider, now, call, cls, hook, apiKey, campaign>>

Finished(slot, i) == slot[i] \in {"ok", "failed"}

\* the batch of recipient i: the list as a whole where the loop takes one
\* recipient at a time
BatchOf(kind, i) == IF kind = "adminBulkEmail" THEN (i - 1) \div BatchSize ELSE 0

\* the loop has come to recipient i
Turn(rq, i) ==
    IF rq.kind = "adminBulkEmail"
    THEN \A j \in DOMAIN rq.slot :
            BatchOf(rq.kind, j) < BatchOf(rq.kind, i) => Finished(rq.slot, j)
    ELSE \A j \in DOMAIN rq.slot : j < i => Finished(rq.slot, j)

\* recipient i is finished: results.push(...), at once or, for a batch, with
\* the results of Promise.all in the order of the batch; after the last
\* recipient the answer
Collect(rq, i, success) ==
    LET slot == [rq.slot EXCEPT ![i] = IF success THEN "ok" ELSE "failed"]
        entry(j) == [email |-> j, success |-> slot[j] = "ok"]
        batch == {j \in DOMAIN slot : BatchOf(rq.kind, j) = BatchOf(rq.kind, i)}
        order == InOrder(batch)
        results ==
            IF rq.kind # "adminBulkEmail" THEN Append(rq.results, entry(i))
            ELSE IF \A j \in batch : Finished(slot, j)
            THEN rq.results \o [k \in 1..Len(order) |-> entry(order[k])]
            ELSE rq.results
        rq1 == [rq EXCEPT !.slot = slot, !.results = results]
    IN  IF \A j \in DOMAIN slot : Finished(slot, j) THEN Done(rq1, 200) ELSE rq1

\* mutant: a provider failure ends the whole request
BulkSendAbortsOnFailure(r, i) ==
    \E accepted \in BOOLEAN :
        /\ req[r].kind \in BulkKinds /\ req[r].pc = "loop"
        /\ i \in DOMAIN req[r].slot /\ req[r].slot[i] = "send"
        /\ Turn(req[r], i)
        /\ provider' = provider \cup {i}
        /\ req' = [req EXCEPT ![r] =
              IF ~accepted THEN Done(req[r], 500)
              ELSE IF req[r].kind = "serviceBulk" THEN Collect(req[r], i, TRUE)
              ELSE [req[r] EXCEPT !.slot[i] = "create"]]
        /\ UNCHANGED <<quota, user, msgs, now, call, cls, hook, apiKey, campaign>>

\* await emailService.sendEmail(emailData) / await this.sendSMS(sms) inside
\* the try of recipient i; the catch pushes the failure
BulkSend(r, i) ==
    \E accepted \in BOOLEAN :
        /\ req[r].kind \in BulkKinds /\ req[r].pc = "loop"
        /\ i \in DOMAIN req[r].slot /\ req[r].slot[i] = "send"
        /\ Turn(req[r], i)
        /\ provider' = provider \cup {i}
        /\ req' = [req EXCEPT ![r] =
              IF ~accepted THEN Collect(req[r], i, FALSE)
              ELSE IF req[r].kind = "serviceBulk" THEN Collect(req[r], i, TRUE)
              ELSE [req[r] EXCEPT !.slot[i] = "create"]]
        /\ UNCHANGED <<quota, user, msgs, now, call, cls, hook, apiKey, campaign>>

\* await Email.create({ ..., status: 'sent', tracking: { messageId, provider
\* } }): the schema has no such tracking paths and sentAt is not given
BulkCreate(r, i) ==
    /\ req[r].kind \in BulkKinds /\ req[r].pc = "loop"
    /\ i \in DOMAIN req[r].slot /\ req[r].slot[i] = "create"
    /\ msgs' = [msgs EXCEPT ![i] = [NewMessage("email", now) EXCEPT !.status = "sent"]]
    /\ req' = [req EXCEPT ![r] = Collect(req[r], i, TRUE)]
    /\ UNCHANGED <<quota, user, provider, now, call, cls, hook, apiKey, campaign>>

NextBulk ==
    \/ BulkArrive(1)
    \/ \E r \in Reqs : \E i \in 1..MaxRecipients : BulkSend(r, i)
    \/ \E r \in Reqs : \E i \in 1..MaxRecipients : BulkCreate(r, i)

SpecBulk == InitBulk /\ [][NextBulk]_vars

----------------------------------------------------------------------------
(* SpecKey: one API key of an active user, with no expiry and no IP         *)
(* whitelist (the schema's defaults), the requests that authenticate with   *)
(* it, and the routes of its owner that regenerate it, reset its usage and  *)
(* update it.  All within one day.                                          *)

\* the document ApiKey.create stores at time t, with usage so far
NewApiKey(t, requests) ==
    [name        |-> "a",
     key         |-> FirstSecret,
     userId      |-> "owner",
     permissions |-> "read",
     isActive    |-> TRUE,
     lastUsed    |-> IF requests = 0 THEN NoDate ELSE t,
     requests    |-> requests,
     limit       |-> KeyLimit,
     resetDate   |-> t + ResetWindowDays]

\* apiKeySchema.methods.hasExceededLimit
HasExceededLimit(k) == k.requests >= k.limit

\* apiKeySchema.methods.isValid, for a key without expiresAt
IsValid(k) == k.isActive /\ ~HasExceededLimit(k)

\* apiKeySchema.methods.incrementUsage up to its save()
IncrementUsage(k, t) == [k EXCEPT !.requests = @ + 1, !.lastUsed = t]

\* apiKeySchema.methods.resetUsage up to its save()
ResetUsage(k, t) == [k EXCEPT !.requests = 0, !.resetDate = t + ResetWindowDays]

\* save() of an API key document: the paths changed since it was loaded
SaveKey(store, orig, doc) ==
    [f \in DOMAIN doc |-> IF doc[f] # orig[f] THEN doc[f] ELSE store[f]]

InitKey ==
    /\ quota = Sample("starter", 0, 0, 0)
    /\ user = [plan |-> "starter"]
    /\ msgs = [r \in Reqs |-> NoMsg]
    /\ provider = {}
    /\ req = [r \in Reqs |-> IdleReq]
    /\ now = 0
    /\ call = NoCall
    /\ cls = NoCls
    /\ hook = [h \in Hooks |-> IdleHook]
    /\ apiKey \in {NewApiKey(0, n) : n \in RouteUsed(KeyLimit)}
    /\ campaign = NoCampaign

\* the secrets a client can present: the first one, those a regenerate
\* request has answered with, and one that was never given out
KnownSecrets ==
    {FirstSecret, UnknownSecret}
        \cup {NewSecret(r) : r \in {k \in Reqs : /\ req[k].kind = "regenerate"
                                                  /\ req[k].pc = "done"
                                                  /\ req[k].res = 200}}

\* authenticateApiKey: ApiKey.findByKey(apiKey), i.e. findOne({ key,
\* isActive: true }), the 401 answers, then on to User.findById
AuthFindByKey(r) ==
    \E secret \in KnownSecrets :
        /\ Arrives(r)
        /\ LET rq == [req[r] EXCEPT !.kind = "auth", !.secret = secret]
               found == apiKey # NoKey /\ apiKey.key = secret /\ apiKey.isActive
           IN  req' = [req EXCEPT ![r] =
                 IF ~found THEN Done(rq, 401)
                 ELSE IF ~IsValid(apiKey) THEN Done(rq, 401)
                 ELSE [rq EXCEPT !.pc = "findUser", !.kdoc = apiKey]]
        /\ UNCHANGED <<quota, user, msgs, provider, now, call, cls, hook, apiKey, campaign>>

\* await User.findById(key.userId): the user is active
AuthFindUser(r) ==
    /\ req[r].kind = "auth" /\ req[r].pc = "findUser"
    /\ req' = [req EXCEPT ![r].pc = "incrementUsage"]
    /\ UNCHANGED <<quota, user, msgs, provider, now, call, cls, hook, apiKey, campaign>>

\* await key.incrementUsage() on the document loaded by findByKey, then
\* next()
AuthIncrementUsage(r) ==
    /\ req[r].kind = "auth" /\ req[r].pc = "incrementUsage"
    /\ apiKey' = SaveKey(apiKey, req[r].kdoc, IncrementUsage(req[r].kdoc, now))
    /\ req' = [req EXCEPT ![r] = Done(req[r], 200)]
    /\ UNCHANGED <<quota, user, msgs, provider, now, call, cls, hook, campaign>>

\* POST /api/api-keys/:id/regenerate: findOne by id and owner.  The request
\* names the stored key.
RegenerateFindOne(r) ==
    /\ Arrives(r)
    /\ req' = [req EXCEPT ![r] =
          [req[r] EXCEPT !.kind = "regenerate", !.pc = "save",
                         !.secret = NewSecret(r), !.kdoc = apiKey]]
    /\ UNCHANGED <<quota, user, msgs, provider, now, call, cls, hook, apiKey, campaign>>

\* mutant: the usage counter is left as it was
RegenerateSaveKeepsUsage(r) ==
    /\ req[r].kind = "regenerate" /\ req[r].pc = "save"
    /\ LET doc == [req[r].kdoc EXCEPT !.key = req[r].secret, !.lastUsed = NoDate]
       IN  apiKey' = SaveKey(apiKey, req[r].kdoc, doc)
    /\ req' = [req EXCEPT ![r] = Done(req[r], 200)]
    /\ UNCHANGED <<quota, user, msgs, provider, now, call, cls, hook, campaign>>

\* apiKey.key = newKey; apiKey.usage.requests = 0; apiKey.lastUsed = null;
\* await apiKey.save()
RegenerateSave(r) ==
    /\ req[r].kind = "regenerate" /\ req[r].pc = "save"
    /\ LET doc == [req[r].kdoc EXCEPT !.key = req[r].secret, !.requests = 0,
                                      !.lastUsed = NoDate]
       IN  apiKey' = SaveKey(apiKey, req[r].kdoc, doc)
    /\ req' = [req EXCEPT ![r] = Done(req[r], 200)]
    /\ UNCHANGED <<quota, user, msgs, provider, now, call, cls, hook, campaign>>

\* POST /api/api-keys/:id/reset-usage: findOne by id and owner
ResetUsageFindOne(r) ==
    /\ Arrives(r)
    /\ req' = [req EXCEPT ![r] =
          [req[r] EXCEPT !.kind = "resetUsage", !.pc = "save", !.kdoc = apiKey]]
    /\ UNCHANGED <<quota, user, msgs, provider, now, call, cls, hook, apiKey, campaign>>

\* await apiKey.resetUsage()
ResetUsageSave(r) ==
    /\ req[r].kind = "resetUsage" /\ req[r].pc = "save"
    /\ apiKey' = SaveKey(apiKey, req[r].kdoc, ResetUsage(req[r].kdoc, now))
    /\ req' = [req EXCEPT ![r] = Done(req[r], 200)]
    /\ UNCHANGED <<quota, user, msgs, provider, now, call, cls, hook, campaign>>

\* PUT /api/api-keys/:id: ApiKey.findOneAndUpdate with the fields of the
\* body, here one of name, permissions and isActive
KeyUpdate(r) ==
    \E field \in {"name", "permissions", "isActive"} :
        /\ Arrives(r)
        /\ apiKey' =
              IF field = "name"
              THEN [apiKey EXCEPT !.name = IF @ = "a" THEN "b" ELSE "a"]
              ELSE IF field = "permissions"
              THEN [apiKey EXCEPT !.permissions = IF @ = "read" THEN "write" ELSE "read"]
              ELSE [apiKey EXCEPT !.isActive = ~@]
        /\ req' = [req EXCEPT ![r] = Done([req[r] EXCEPT !.kind = "keyUpdate"], 200)]
        /\ UNCHANGED <<quota, user, msgs, provider, now, call, cls, hook, campaign>>

NextKey ==
    \/ \E r \in Reqs : AuthFindByKey(r)
    \/ \E r \in Reqs : AuthFindUser(r)
    \/ \E r \in Reqs : AuthIncrementUsage(r)
    \/ \E r \in Reqs : RegenerateFindOne(r)
    \/ \E r \in Reqs : RegenerateSave(r)
    \/ \E r \in Reqs : ResetUsageFindOne(r)
    \/ \E r \in Reqs : ResetUsageSave(r)
    \/ \E r \in Reqs : KeyUpdate(r)

SpecKey == InitKey /\ [][NextKey]_vars

----------------------------------------------------------------------------
(* SpecCampaign: one campaign of a user and the requests of its owner that  *)
(* update, delete and send it.                                              *)

CampaignStatuses == {"draft", "scheduled", "sending", "sent", "paused", "cancelled"}

\* the document POST /api/campaigns stores: status takes the schema's default
NewCampaign == [name |-> "a", status |-> "draft"]

\* the bodies of an update request: a name or none, and a status field or
\* none, which no validator of the route looks at
UpdateBodies ==
    [name : {"none", "b"}, status : {"none", "bogus"} \cup CampaignStatuses]

\* Object.assign(campaign, updates)
Assign(doc, body) ==
    [name   |-> IF body.name = "none" THEN doc.name ELSE body.name,
     status |-> IF body.status = "none" THEN doc.status ELSE body.status]

InitCampaign ==
    /\ quota = Sample("starter", 0, 0, 0)
    /\ user = [plan |-> "starter"]
    /\ msgs = [r \in Reqs |-> NoMsg]
    /\ provider = {}
    /\ req = [r \in Reqs |-> IdleReq]
    /\ now = 0
    /\ call = NoCall
    /\ cls = NoCls
    /\ hook = [h \in Hooks |-> IdleHook]
    /\ apiKey = NoKey
    /\ campaign = NewCampaign

\* PUT /api/campaigns/:id: findOne, the 404 answer, the 400 answer for a
\* sent campaign, and Object.assign
CampaignUpdateFindOne(r) ==
    \E body \in UpdateBodies :
        /\ Arrives(r)
        /\ LET rq == [req[r] EXCEPT !.kind = "campaignUpdate", !.body = body]
           IN  req' = [req EXCEPT ![r] =
                 IF campaign = NoCampaign THEN Done(rq, 404)
                 ELSE IF campaign.status = "sent" THEN Done(rq, 400)
                 ELSE [rq EXCEPT !.pc = "save", !.cdoc = campaign]]
        /\ UNCHANGED <<quota, user, msgs, provider, now, call, cls, hook, apiKey, campaign>>

\* await campaign.save(): the enum of status is validated; a document that
\* was deleted in between is not written again; both end in the catch
CampaignUpdateSave(r) ==
    /\ req[r].kind = "campaignUpdate" /\ req[r].pc = "save"
    /\ LET doc == Assign(req[r].cdoc, req[r].body)
           ok == doc.status \in CampaignStatuses /\ campaign # NoCampaign
       IN  /\ campaign' = IF ok THEN SaveKey(campaign, req[r].cdoc, doc) ELSE campaign
           /\ req' = [req EXCEPT ![r] = Done(req[r], IF ok THEN 200 ELSE 500)]
    /\ UNCHANGED <<quota, user, msgs, provider, now, call, cls, hook, apiKey>>

\* DELETE /api/campaigns/:id: findOne, the 404 answer, the 400 answer for a
\* campaign that is sending
CampaignDeleteFindOne(r) ==
    /\ Arrives(r)
    /\ LET rq == [req[r] EXCEPT !.kind = "campaignDelete"]
       IN  req' = [req EXCEPT ![r] =
             IF campaign = NoCampaign THEN Done(rq, 404)
             ELSE IF campaign.status = "sending" THEN Done(rq, 400)
             ELSE [rq EXCEPT !.pc = "delete", !.cdoc = campaign]]
    /\ UNCHANGED <<quota, user, msgs, provider, now, call, cls, hook, apiKey, campaign>>

\* await Campaign.findByIdAndDelete(req.params.id)
CampaignDelete(r) ==
    /\ req[r].kind = "campaignDelete" /\ req[r].pc = "delete"
    /\ campaign' = NoCampaign
    /\ req' = [req EXCEPT ![r] = Done(req[r], 200)]
    /\ UNCHANGED <<quota, user, msgs, provider, now, call, cls, hook, apiKey>>

\* POST /api/campaigns/:id/send: findOne, the 404 answer, the 400 answer
\* unless the campaign is a draft or scheduled
CampaignSendFindOne(r) ==
    /\ Arrives(r)
    /\ LET rq == [req[r] EXCEPT !.kind = "campaignSend"]
       IN  req' = [req EXCEPT ![r] =
             IF campaign = NoCampaign THEN Done(rq, 404)
             ELSE IF campaign.status \notin {"draft", "scheduled"} THEN Done(rq, 400)
             ELSE [rq EXCEPT !.pc = "save", !.cdoc = campaign]]
    /\ UNCHANGED <<quota, user, msgs, provider, now, call, cls, hook, apiKey, campaign>>

\* campaign.status = 'sending'; await campaign.save()
CampaignSendSave(r) ==
    /\ req[r].kind = "campaignSend" /\ req[r].pc = "save"
    /\ LET doc == [req[r].cdoc EXCEPT !.status = "sending"]
           ok == campaign # NoCampaign
       IN  /\ campaign' = IF ok THEN SaveKey(campaign, req[r].cdoc, doc) ELSE campaign
           /\ req' = [req EXCEPT ![r] = Done(req[r], IF ok THEN 200 ELSE 500)]
    /\ UNCHANGED <<quota, user, msgs, provider, now, call, cls, hook, apiKey>>

NextCampaign ==
    \/ \E r \in Reqs : CampaignUpdateFindOne(r)
    \/ \E r \in Reqs : CampaignUpdateSave(r)
    \/ \E r \in Reqs : CampaignDeleteFindOne(r)
    \/ \E r \in Reqs : CampaignDelete(r)
    \/ \E r \in Reqs : CampaignSendFindOne(r)
    \/ \E r \in Reqs : CampaignSendSave(r)

SpecCampaign == InitCampaign /\ [][NextCampaign]_vars

----------------------------------------------------------------------------
(* Claims *)

\* the classification the thresholds prescribe, in whole numbers
ExpectedStatus(limit, used) ==
    IF limit = 0 THEN "normal"
    ELSE IF used * 100 >= 100 * limit THEN "exceeded"
    ELSE IF used * 100 >= 90 * limit THEN "critical"
    ELSE IF used * 100 >= 75 * limit THEN "warning"
    ELSE "normal"

\* C6: getQuotaStatus gives 'normal' for a limit of 0, and otherwise 'exceeded',
\* 'critical', 'warning' or 'normal' as used*100 reaches 100, 90 or 75 times the
\* limit, or none of them.
C6_Classification ==
    cls.op = "getQuotaStatus" =>
        /\ cls.status1 = ExpectedStatus(cls.limit, cls.used1)
        /\ cls.status2 = ExpectedStatus(cls.limit, cls.used2)

\* a bucket exactly on the 90% threshold, another exactly on the 75% one
C6_Witness ==
    /\ cls.op = "getQuotaStatus"
    /\ cls.limit > 0
    /\ cls.used1 * 100 = 90 * cls.limit /\ cls.status1 = "critical"
    /\ cls.used2 * 100 = 75 * cls.limit /\ cls.status2 = "warning"

\* C7: for two buckets of the same positive limit, the one with less usage is
\* never classified as more severe than the other.
C7_Monotonic ==
    (cls.op = "getQuotaStatus" /\ cls.limit > 0 /\ cls.used1 < cls.used2) =>
        Severity(cls.status1) <= Severity(cls.status2)

C7_Witness ==
    /\ cls.op = "getQuotaStatus"
    /\ cls.limit > 0
    /\ cls.used1 < cls.used2
    /\ cls.status1 = "warning"
    /\ cls.status2 = "critical"

\* the request loaded a ledger with exactly one unit left in its bucket
OneLeft(rq) ==
    /\ rq.orig # NoDoc
    /\ rq.orig[rq.type].used = rq.orig[rq.type].limit - 1

\* C1: of two send requests of one type that both found exactly one unit
\* left, at most one consumes it and at most one reaches the provider.
C1_OneUnitOneSend ==
    \A r1 \in Reqs : \A r2 \in Reqs \ {r1} :
        (/\ req[r1].kind = "send" /\ req[r2].kind = "send"
         /\ req[r1].type = req[r2].type
         /\ OneLeft(req[r1]) /\ OneLeft(req[r2])) =>
            /\ ~(req[r1].consumed /\ req[r2].consumed)
            /\ ~({r1, r2} \subseteq provider)

\* C2: with send requests only, used never passes limit in any bucket.
C2_UsedWithinLimit ==
    quota # NoQuota => \A type \in Types : quota[type].used <= quota[type].limit

\* two requests raced for the last unit, both consumed, and the bucket stands
\* at its limit
C2_Witness ==
    \E r1 \in Reqs : \E r2 \in Reqs \ {r1} :
        /\ req[r1].kind = "send" /\ req[r2].kind = "send"
        /\ req[r1].type = req[r2].type
        /\ OneLeft(req[r1]) /\ OneLeft(req[r2])
        /\ req[r1].consumed /\ req[r2].consumed
        /\ quota[req[r1].type].used = quota[req[r1].type].limit

\* C3: hasQuotaAvailable(type, n) is true exactly when the consumeQuota(type, n)
\* that follows it on the same ledger succeeds.
C3_CheckAgreesWithConsume ==
    call.op = "consumeQuota" => (call.has <=> call.result = "ok")

\* the request asks for one unit more than is left, and is refused
C3_Witness ==
    /\ call.op = "consumeQuota"
    /\ call.pre[call.type].used + call.amount = call.pre[call.type].limit + 1
    /\ ~call.has
    /\ call.result = "InsufficientQuota"

\* C4: a consumeQuota that would pass the limit fails and changes nothing, in
\* the document or in the store.
C4_RefusedConsumeChangesNothing ==
    (/\ call.op = "consumeQuota"
     /\ call.pre[call.type].used + call.amount > call.pre[call.type].limit) =>
        /\ call.result = "InsufficientQuota"
        /\ call.doc = call.pre
        /\ quota = call.pre

\* one unit is left and two are asked for, after the clock has moved
C4_Witness ==
    /\ call.op = "consumeQuota"
    /\ call.amount = 2
    /\ call.pre[call.type].limit > 0
    /\ call.pre[call.type].used = call.pre[call.type].limit - 1
    /\ call.result = "InsufficientQuota"
    /\ now > call.pre.lastUpdated

\* C5: the stored status is the worst of the three buckets' classifications.
C5_StatusIsWorst ==
    quota # NoQuota => quota.status = OverallStatus(quota)

\* C8: resetAllQuotas leaves used = 0 in the three buckets and status normal,
\* and keeps the limits and the plan.
C8_ResetAll ==
    call.op = "resetAllQuotas" =>
        /\ \A type \in Types :
              /\ quota[type].used = 0
              /\ quota[type].limit = call.pre[type].limit
        /\ quota.status = "normal"
        /\ quota.plan = call.pre.plan

\* a ledger with usage in every countable bucket and a bucket full is reset
C8_Witness ==
    /\ call.op = "resetAllQuotas"
    /\ call.pre.status = "exceeded"
    /\ call.pre.email.used > 0
    /\ call.pre.api.used > 0
    /\ quota.email.used = 0
    /\ quota.api.used = 0

\* C9: updatePlan with a plan of the table succeeds and leaves the plan and
\* the limits given, used = 0 everywhere and status normal.
C9_UpdatePlanSucceeds ==
    (call.op = "updatePlan" /\ call.plan \in Plans) =>
        /\ call.result = "ok"
        /\ quota.plan = call.plan
        /\ \A type \in Types :
              /\ quota[type].limit = call.limits[type]
              /\ quota[type].used = 0
        /\ quota.status = "normal"

\* C10: a plan change to a name outside the table fails as an invalid
\* argument and changes neither the ledger nor the user's plan.
C10_BadPlanRejected ==
    (call.op = "updatePlan" /\ call.plan \notin Plans) =>
        /\ call.result = "InvalidArgument"
        /\ quota = call.pre
        /\ user.plan = call.pre.plan

\* the plan table as the specification gives it
TableRow(p) ==
    CASE p = "free"         -> <<2000, 0, 10000>>
      [] p = "starter"      -> <<5000, 1000, 50000>>
      [] p = "professional" -> <<25000, 5000, 200000>>

LimitsOf(q) == <<q.email.limit, q.sms.limit, q.api.limit>>

\* C11: a ledger, when created, has used = 0 in every bucket, status normal
\* and the limits of its plan's table row; and through every creation and plan
\* change the stored limits are the table row of the stored plan.
C11_LimitsFollowPlan ==
    /\ [](quota # NoQuota => LimitsOf(quota) = TableRow(quota.plan))
    /\ [][(quota = NoQuota /\ quota' # NoQuota) =>
              /\ \A type \in Types : quota'[type].used = 0
              /\ quota'.status = "normal"
              /\ LimitsOf(quota') = TableRow(quota'.plan)]_vars

\* a ledger was created on first access, and a plan change has since replaced
\* its plan and limits
C11_Witness ==
    \E r1 \in Reqs : \E r2 \in Reqs \ {r1} :
        /\ req[r1].kind = "getQuota" /\ req[r1].res = 200 /\ req[r1].orig = NoDoc
        /\ req[r2].kind \in {"quotaPlan", "adminPlan", "userUpdate"}
        /\ req[r2].pc = "done"
        /\ req[r2].orig # NoDoc
        /\ req[r2].orig.plan = req[r1].uplan
        /\ req[r2].plan # req[r1].uplan
        /\ quota # NoQuota
        /\ quota.plan = req[r2].plan
        /\ LimitsOf(quota) = TableRow(req[r2].plan)

\* the send request r is answered with res in this step, its first
AnsweredAtOnce(r, res) ==
    /\ req[r].pc = "idle"
    /\ req'[r].kind = "send"
    /\ req'[r].res = res

\* C12: a send request that found one unit left ends with used = limit and
\* status exceeded; a send request that finds used = limit is answered 429,
\* creates no message, never reaches the provider and leaves the ledger as
\* it was.
C12_LastUnitThenRefused ==
    /\ [](\A r \in Reqs :
            /\ (req[r].kind = "send" /\ req[r].pc = "done" /\ OneLeft(req[r])) =>
                  /\ req[r].consumed
                  /\ quota[req[r].type].used = quota[req[r].type].limit
                  /\ quota.status = "exceeded"
            /\ (req[r].kind = "send" /\ req[r].res = 429) =>
                  /\ msgs[r] = NoMsg
                  /\ r \notin provider
                  /\ ~req[r].consumed)
    /\ [][\A r \in Reqs :
            /\ (/\ req[r].pc = "idle" /\ req'[r].kind = "send"
                /\ quota # NoQuota
                /\ quota[req'[r].type].used = quota[req'[r].type].limit) =>
                  req'[r].res = 429
            /\ AnsweredAtOnce(r, 429) =>
                  (quota' = quota /\ msgs' = msgs /\ provider' = provider)]_vars

\* one request took the last unit and the next of the same type was refused
C12_Witness ==
    \E r1 \in Reqs : \E r2 \in Reqs \ {r1} :
        /\ req[r1].kind = "send" /\ req[r1].pc = "done" /\ OneLeft(req[r1])
        /\ req[r1].res = 201
        /\ req[r2].kind = "send" /\ req[r2].type = req[r1].type
        /\ req[r2].res = 429
        /\ msgs[r1].status = "sent"
        /\ msgs[r2] = NoMsg
        /\ quota.status = "exceeded"

\* C13: a send request of a user without ledger is answered 404; it creates
\* no message and no ledger and never reaches the provider.
C13_NoLedgerNoEffect ==
    /\ [](\A r \in Reqs :
            (req[r].kind = "send" /\ req[r].res = 404) =>
                (msgs[r] = NoMsg /\ r \notin provider /\ quota = NoQuota))
    /\ [][\A r \in Reqs :
            /\ (req[r].pc = "idle" /\ req'[r].kind = "send" /\ quota = NoQuota) =>
                  req'[r].res = 404
            /\ AnsweredAtOnce(r, 404) =>
                  (quota' = quota /\ msgs' = msgs /\ provider' = provider)]_vars

\* every request of the user was a send and was answered 404
C13_Witness ==
    /\ quota = NoQuota
    /\ \A r \in Reqs : req[r].kind = "send" /\ req[r].res = 404 /\ req[r].pc = "done"
    /\ \E r \in Reqs : req[r].type = "sms"

\* the provider call of request r failed
ProviderFailed(r) ==
    /\ req[r].kind = "send"
    /\ r \in provider
    /\ req[r].pid = NoId

\* C14: when the provider call of an immediate send fails, the request is
\* answered 500, its message stays stored in status failed with an error
\* message, and the unit it consumed is not given back: neither the failing
\* provider call nor the catch that follows it touches the ledger, and with
\* no other send on the same bucket used ends one higher than the request
\* found it.  (What used holds when other sends save the same bucket
\* concurrently is the matter of C2.)
C14_ProviderFailureKeepsUnit ==
    /\ [](\A r \in Reqs :
            (ProviderFailed(r) /\ req[r].pc = "done") =>
                /\ req[r].res = 500
                /\ msgs[r].status = "failed"
                /\ msgs[r].errorMessage # "none"
                /\ (\A k \in Reqs \ {r} : ~(req[k].consumed /\ req[k].type = req[r].type))
                      => quota[req[r].type].used = req[r].orig[req[r].type].used + 1)
    /\ [][\A r \in Reqs :
            (/\ req[r].kind = "send"
             /\ req[r].pc \in {"provider", "markAsFailed"}
             /\ req'[r].pc \in {"markAsFailed", "done"}
             /\ req'[r].pc # req[r].pc) =>
                quota' = quota]_vars

\* a request took the last unit, its provider call failed, and the bucket
\* stays full
C14_Witness ==
    \E r \in Reqs :
        /\ ProviderFailed(r) /\ req[r].pc = "done" /\ req[r].res = 500
        /\ OneLeft(req[r])
        /\ msgs[r].status = "failed"
        /\ quota[req[r].type].used = quota[req[r].type].limit
        /\ \A k \in Reqs \ {r} : req[k].res = 429

\* the statuses from which no transition is expected
Terminal(d) ==
    IF d.kind = "email" THEN d.status \in {"bounced", "failed"}
    ELSE d.status \in {"failed", "undelivered"}

\* C15: a message in a terminal status is never changed again, in its status,
\* its timestamps or its counters.
C15_TerminalIsFinal ==
    [][\A m \in Reqs :
          (msgs[m] # NoMsg /\ Terminal(msgs[m])) => msgs'[m] = msgs[m]]_vars

\* C16: no step takes a message that is delivered, opened, clicked or
\* terminal back to status sent.
C16_SentOnlyFromPending ==
    [][\A m \in Reqs :
          (/\ msgs[m] # NoMsg
           /\ msgs[m].status \in {"delivered", "opened", "clicked",
                                   "bounced", "failed", "undelivered"}) =>
              msgs'[m].status # "sent"]_vars

\* C17: an email in status pending or sent is not moved to opened or clicked
\* and its open and click counters are not incremented.
C17_OpenNeedsDelivered ==
    [][\A m \in Reqs :
          (/\ msgs[m] # NoMsg
           /\ msgs[m].kind = "email"
           /\ msgs[m].status \in {"pending", "sent"}) =>
              /\ msgs'[m].status \notin {"opened", "clicked"}
              /\ msgs'[m].openCount = msgs[m].openCount
              /\ msgs'[m].clickCount = msgs[m].clickCount]_vars

SmsWebhookMarks(h, event) ==
    /\ hook[h].kind = "smsWebhook"
    /\ hook[h].pc = "mark"
    /\ hook[h].event = event
    /\ hook'[h].pc = "done"

\* C19: a delivered webhook for the SID of an SMS found in status sent moves
\* it to delivered with deliveredAt set; a failed webhook for an SMS found in
\* status delivered moves it to failed and keeps deliveredAt; a webhook whose
\* SID matches no SMS or whose status is none of delivered, failed and
\* undelivered changes no message.
C19_DeliveryWebhook ==
    /\ [](\A h \in Hooks :
            (hook[h].kind = "smsWebhook" /\ hook[h].pc = "mark") =>
                /\ hook[h].event \in {"delivered", "failed", "undelivered"}
                /\ hook[h].id \notin {UnknownId, NoId}
                /\ hook[h].orig.kind = "sms"
                /\ hook[h].orig.sid = hook[h].id)
    /\ [][\A h \in Hooks :
            /\ (SmsWebhookMarks(h, "delivered") /\ hook[h].orig.status = "sent") =>
                  /\ msgs'[hook[h].mid].status = "delivered"
                  /\ msgs'[hook[h].mid].deliveredAt # NoDate
            /\ (SmsWebhookMarks(h, "failed") /\ hook[h].orig.status = "delivered") =>
                  /\ msgs'[hook[h].mid].status = "failed"
                  /\ msgs'[hook[h].mid].deliveredAt = msgs[hook[h].mid].deliveredAt
                  /\ msgs'[hook[h].mid].deliveredAt # NoDate
            /\ (hook[h].pc = "idle" /\ hook'[h].pc # "idle") => msgs' = msgs
            /\ (hook[h].kind = "smsWebhook" /\ hook[h].pc = "mark"
                    /\ hook'[h].pc = "done") =>
                  \A m \in Reqs \ {hook[h].mid} : msgs'[m] = msgs[m]]_vars

\* an SMS was sent, then reported delivered, then reported failed
C19_Witness ==
    \E r \in Reqs :
        /\ req[r].kind = "send" /\ req[r].type = "sms" /\ req[r].res = 201
        /\ msgs[r].sid = req[r].pid
        /\ msgs[r].sentAt # NoDate
        /\ msgs[r].deliveredAt # NoDate
        /\ msgs[r].status = "failed"
        /\ msgs[r].errorMessage = "Delivery failed"
        /\ \A h \in Hooks : hook[h].pc = "done" /\ hook[h].res = 200

\* C20: a message an immediate send left in status sent holds the id the
\* provider returned for it, under which the provider's callbacks look it up.
C20_SentHoldsTrackingId ==
    \A r \in Reqs :
        (/\ req[r].kind = "send" /\ req[r].pc = "done" /\ req[r].res = 201
         /\ req[r].pid # NoId
         /\ msgs[r].status = "sent") =>
            /\ msgs[r].messageId = req[r].pid
            /\ (msgs[r].kind = "sms" => msgs[r].sid = req[r].pid)

\* the send requests whose consumeQuota call on a bucket succeeded
Admitted(type) ==
    {r \in Reqs : req[r].kind = "send" /\ req[r].type = type /\ req[r].consumed}

\* C25: with send requests only, every step keeps used[type] minus the number
\* of requests whose consumeQuota call succeeded: no unit is lost.
C25_NoLostUpdate ==
    [][quota # NoQuota =>
          \A type \in Types :
              quota'[type].used - Cardinality(Admitted(type)')
                  = quota[type].used - Cardinality(Admitted(type))]_vars

\* C26: consumeQuota(type, amount) and resetQuota(type) leave the other two
\* buckets, the three limits and the plan as they were; a consumeQuota that
\* succeeds raises used[type] by amount, a resetQuota leaves it at 0.  (The
\* ledger of the model is the one of a single user: it has no userId to
\* change.)
C26_OnlyTheNamedBucket ==
    call.op \in {"consumeQuota", "resetQuota"} =>
        /\ \A other \in Types \ {call.type} : quota[other] = call.pre[other]
        /\ quota[call.type].limit = call.pre[call.type].limit
        /\ quota.plan = call.pre.plan
        /\ (call.op = "consumeQuota" /\ call.result = "ok") =>
              quota[call.type].used = call.pre[call.type].used + call.amount
        /\ call.op = "resetQuota" => quota[call.type].used = 0

\* a bucket is reset a day after the ledger was made, while another bucket
\* holds usage
C26_Witness ==
    /\ call.op = "resetQuota"
    /\ call.pre[call.type].used > 0
    /\ now > 0
    /\ quota[call.type].resetDate # call.pre[call.type].resetDate
    /\ \E other \in Types \ {call.type} : call.pre[other].used > 0

\* a request of one of the three plan routes has arrived and is not finished
PlanChangeInProgress ==
    \E r \in Reqs :
        /\ req[r].kind \in {"quotaPlan", "adminPlan", "userUpdate"}
        /\ req[r].pc # "done"

\* C30: when the ledger exists and no plan change is in progress, the user
\* and the ledger name the same plan.
C30_UserPlanIsLedgerPlan ==
    (quota # NoQuota /\ ~PlanChangeInProgress) => user.plan = quota.plan

\* how often message m was handed to the provider: by the send request that
\* created it and by the runs of the sweep
HandOffs(m) ==
    (IF m \in provider THEN 1 ELSE 0)
        + Cardinality({h \in Hooks : m \in hook[h].handed})

\* C27: an SMS created by an immediate send request is handed to the provider
\* at most once, whatever the send request and the runs of the sweep do.
C27_HandedOnce ==
    \A m \in Reqs :
        (req[m].kind = "send" /\ req[m].type = "sms" /\ ~req[m].sched) =>
            HandOffs(m) <= 1

\* the messages a step hands to the provider in run h
HandedNow(h) == hook'[h].handed \ hook[h].handed

\* C23: a run of the sweep takes at most SweepBatch messages, all of them
\* pending and due when it scanned, and hands them to the provider one after
\* another; when it ends each of them is sent or failed.  A message that is
\* not pending, or not yet due, is neither handed over nor changed.
C23_SweepTakesDuePending ==
    /\ [](\A h \in Hooks :
            /\ Len(hook[h].batch) <= SweepBatch
            /\ Cardinality(hook[h].handed) <= SweepBatch
            /\ \A i \in 1..Len(hook[h].batch) :
                  /\ hook[h].batch[i].doc.status = "pending"
                  /\ hook[h].batch[i].doc.scheduledAt <= now
            /\ hook[h].pc \in {"sendSMS", "done"} =>
                  \A m \in hook[h].handed : msgs[m].status \in {"sent", "failed"})
    /\ [][\A h \in Hooks : \A m \in HandedNow(h) :
              /\ msgs[m].status = "pending"
              /\ msgs[m].scheduledAt <= now
              /\ HandedNow(h) = {m}]_vars
    /\ [][\A m \in DOMAIN msgs :
              (msgs[m].status # "pending" \/ msgs[m].scheduledAt > now) =>
                  /\ msgs'[m] = msgs[m]
                  /\ \A h \in Hooks : m \notin HandedNow(h)]_vars

\* a run has ended after SweepBatch messages, one of which the provider
\* refused; a due message is left pending for the next run, and a message
\* that was sent before or is due the next day is as it was
C23_Witness ==
    \E h \in Hooks :
        /\ hook[h].pc = "done"
        /\ Cardinality(hook[h].handed) = SweepBatch
        /\ \E m \in hook[h].handed : msgs[m].status = "failed"
        /\ \E m \in DOMAIN msgs \ hook[h].handed :
              msgs[m].status = "pending" /\ msgs[m].scheduledAt <= now
        /\ \E m \in DOMAIN msgs \ hook[h].handed :
              \/ msgs[m].status = "pending" /\ msgs[m].scheduledAt > now
              \/ msgs[m].status = "sent" /\ msgs[m].sid.by = "send"

BulkReqs == {r \in Reqs : req[r].kind \in BulkKinds}

\* C21: a bulk send over n >= 1 recipients is answered with n result entries,
\* the i-th for the i-th recipient, a failure for exactly those the provider
\* refused; a refusal does not end the request, and no step changes an Email
\* already stored or a result already collected.
C21_OneResultPerRecipient ==
    /\ [](\A r \in BulkReqs :
            req[r].pc = "done" /\ Len(req[r].slot) > 0 =>
                /\ req[r].res = 200
                /\ Len(req[r].results) = Len(req[r].slot)
                /\ \A i \in DOMAIN req[r].slot :
                      /\ Finished(req[r].slot, i)
                      /\ req[r].results[i].email = i
                      /\ req[r].results[i].success = (req[r].slot[i] = "ok")
                      /\ (req[r].kind # "serviceBulk") =>
                            (req[r].results[i].success <=> msgs[i] # NoMsg))
    /\ [][/\ \A i \in DOMAIN msgs : msgs[i] # NoMsg => msgs'[i] = msgs[i]
          /\ \A r \in BulkReqs :
                /\ Len(req'[r].results) >= Len(req[r].results)
                /\ \A k \in 1..Len(req[r].results) :
                      req'[r].results[k] = req[r].results[k]]_vars

\* POST /api/admin/send-email has served all its recipients: the provider
\* refused the first, and the later ones were sent and stored
C21_Witness ==
    \E r \in BulkReqs :
        /\ req[r].kind = "adminSendEmail" /\ req[r].pc = "done"
        /\ Len(req[r].slot) >= 2
        /\ req[r].slot[1] = "failed"
        /\ \A i \in 2..Len(req[r].slot) : req[r].slot[i] = "ok" /\ msgs[i].status = "sent"

\* the recipients of the bulk routes whose email was sent
BulkSent ==
    {i \in 1..MaxRecipients :
        \E r \in BulkReqs : req[r].kind # "serviceBulk"
                                /\ i \in DOMAIN req[r].slot /\ req[r].slot[i] \in {"create", "ok"}}

\* C22: a bulk send consults the sender's ledger for every recipient: every
\* email it sends raises used[email] by one.
C22_BulkConsumes ==
    [][quota'.email.used - Cardinality(BulkSent')
          = quota.email.used - Cardinality(BulkSent)]_vars

\* request r arrives in this step as an authentication with the given secret
AuthArrives(r) == req[r].pc = "idle" /\ req'[r].kind = "auth"

\* request r is a regenerate whose save() is written in this step
RegenerateSaves(r) ==
    /\ req[r].kind = "regenerate" /\ req[r].pc = "save"
    /\ req'[r].pc = "done"

AuthCounts(r) ==
    /\ req[r].kind = "auth" /\ req[r].pc = "incrementUsage"
    /\ req'[r].pc = "done"

\* C28: usage.requests never passes usage.limit; a request that presents a
\* key with usage.requests >= usage.limit is refused and leaves the key as it
\* is; with no other requests than authentications on the key, every request
\* that is let through raises usage.requests by one.
C28_UsageCounted ==
    /\ [](apiKey.requests <= apiKey.limit)
    /\ [][\A r \in Reqs :
              (AuthArrives(r) /\ apiKey.requests >= apiKey.limit) =>
                  /\ req'[r].pc = "done" /\ req'[r].res = 401
                  /\ apiKey' = apiKey]_vars
    /\ [][\A r \in Reqs :
              (AuthCounts(r) /\ \A k \in Reqs : req[k].kind \in {"idle", "auth"}) =>
                  apiKey'.requests = apiKey.requests + 1]_vars

\* request r of the given route writes the campaign in this step
CampaignWrites(r, kind) ==
    /\ req[r].kind = kind /\ req[r].pc \in {"save", "delete"}
    /\ req'[r].pc = "done"
    /\ campaign' # campaign

\* C29: the status of a campaign changes only when a send request takes a
\* draft or scheduled campaign to sending; an update request writes nothing
\* to a sent campaign, and a campaign that is sending is not deleted.
C29_StatusOnlyBySend ==
    /\ [][(campaign # NoCampaign /\ campaign' # NoCampaign
             /\ campaign'.status # campaign.status) =>
              /\ campaign.status \in {"draft", "scheduled"}
              /\ campaign'.status = "sending"
              /\ \E r \in Reqs : CampaignWrites(r, "campaignSend")]_vars
    /\ [][(campaign # NoCampaign /\ campaign.status = "sent") =>
              \A r \in Reqs : ~CampaignWrites(r, "campaignUpdate")]_vars
    /\ [][(campaign # NoCampaign /\ campaign.status = "sending") =>
              campaign' # NoCampaign]_vars
====
